---- MODULE Spec2Model ----
(***************************************************************************)
(* Model of src/relevador.py: the discovery-and-scoring pipeline of        *)
(* class BuscadorUniversidades.                                            *)
(*                                                                         *)
(* Strings the program inspects are sequences of tokens.  A page text is a *)
(* sequence of words and whitespace tokens, a validation term is the       *)
(* sequence of its words separated by " " tokens, and Python's             *)
(* `a in b` on strings is the contiguous-subsequence test on tokens.       *)
(* str.lower() maps each token to its lower-case form.                     *)
(***************************************************************************)
EXTENDS Integers, Sequences, FiniteSets, TLC

(***************************************************************************)
(* Bounds of the model.                                                    *)
(***************************************************************************)
\* longest page text, in tokens, given to the term scorer on its own
MaxTextLen == 5

(***************************************************************************)
(* Generic helpers on sequences.                                           *)
(***************************************************************************)
\* all sequences over S of length 0..n
SeqsUpTo(S, n) == UNION { [1..k -> S] : k \in 0..n }

\* the sequence s occurs in t as a contiguous run (Python: s in t)
Contains(s, t) ==
  \E i \in 0..(Len(t) - Len(s)) : \A j \in 1..Len(s) : t[i + j] = s[j]

\* the elements of a sequence
Range(s) == { s[i] : i \in 1..Len(s) }

(***************************************************************************)
(* str.lower().  The tokens with an upper-case letter that the model uses, *)
(* each with its lower-case form; every other token is already lower case. *)
(***************************************************************************)
UpperTokens ==
  { <<"Open", "open">>, <<"OPEN", "open">>, <<"Science", "science">>,
    <<"University", "university">>, <<"UNIVERSITY", "university">>,
    <<"Universities", "universities">>, <<"Ranking", "ranking">>,
    <<"Wikipedia", "wikipedia">>, <<"College", "college">>,
    <<"School", "school">>, <<"Shop", "shop">>, <<"Research", "research">>,
    <<"Harvard", "harvard">>, <<".EDU", ".edu">>, <<"Top", "top">> }

\* the table as a function from a token to its lower-case form
LowerDe ==
  [ tok \in { p[1] : p \in UpperTokens } |-> (CHOOSE p \in UpperTokens : p[1] = tok)[2] ]

ConMayusculas == DOMAIN LowerDe

Lower(tok) == IF tok \in ConMayusculas THEN LowerDe[tok] ELSE tok

LowerText(t) == [i \in 1..Len(t) |-> Lower(t[i])]

(***************************************************************************)
(* __init__: the category list and the term catalogs.                      *)
(***************************************************************************)
categorias == <<"ciencia_abierta", "comunicacion_publica", "diplomacia_cientifica">>

Categorias == Range(categorias)

terminos_busqueda_universidades ==
  [ ciencia_abierta |-> <<
      "universidad ciencia abierta",
      "universitat ciència oberta",
      "universidad datos abiertos",
      "universidad acceso abierto",
      "universidad investigación abierta",
      "university open science",
      "university open data",
      "university open access",
      "university open research",
      "university fair data",
      "universitat ciència oberta",
      "universitat dades obertes",
      "universitat accés obert",
      "universidade ciência aberta",
      "universidade dados abertos",
      "universidade acesso aberto",
      "université science ouverte",
      "université données ouvertes",
      "université accès libre",
      "università scienza aperta",
      "università dati aperti",
      "università accesso aperto" >>,
    comunicacion_publica |-> <<
      "universidad comunicación científica",
      "universidad divulgación científica",
      "universidad comunicación pública ciencia",
      "universidad outreach científico",
      "university science communication",
      "university public engagement science",
      "university science outreach",
      "university public understanding science",
      "universitat comunicació científica",
      "universitat divulgació científica",
      "universitat comunicació pública ciència",
      "universidade comunicação científica",
      "universidade divulgação científica",
      "universidade comunicação pública ciência",
      "université communication scientifique",
      "université vulgarisation scientifique",
      "université communication publique science",
      "università comunicazione scientifica",
      "università divulgazione scientifica" >>,
    diplomacia_cientifica |-> <<
      "universidad diplomacia científica",
      "universidad cooperación internacional científica",
      "universidad política científica",
      "universidad ciencia global",
      "university science diplomacy",
      "university scientific diplomacy",
      "university international scientific cooperation",
      "university global science",
      "universitat diplomàcia científica",
      "universitat cooperació internacional científica",
      "universidade diplomacia científica",
      "universidade cooperação internacional científica",
      "université diplomatie scientifique",
      "université coopération internationale scientifique",
      "università diplomazia scientifica",
      "università cooperazione internazionale scientifica" >> ]

terminos_validacion ==
  [ ciencia_abierta |-> <<
      <<"ciencia", " ", "abierta">>,
      <<"datos", " ", "abiertos">>,
      <<"acceso", " ", "abierto">>,
      <<"investigación", " ", "abierta">>,
      <<"repositorio", " ", "institucional">>,
      <<"datos", " ", "fair">>,
      <<"investigación", " ", "reproducible">>,
      <<"open", " ", "science">>,
      <<"open", " ", "data">>,
      <<"open", " ", "access">>,
      <<"open", " ", "research">>,
      <<"fair", " ", "data">>,
      <<"institutional", " ", "repository">>,
      <<"reproducible", " ", "research">>,
      <<"transparent", " ", "research">>,
      <<"ciència", " ", "oberta">>,
      <<"dades", " ", "obertes">>,
      <<"accés", " ", "obert">>,
      <<"investigació", " ", "oberta">>,
      <<"repositori", " ", "institucional">>,
      <<"investigació", " ", "reproductible">>,
      <<"ciência", " ", "aberta">>,
      <<"dados", " ", "abertos">>,
      <<"acesso", " ", "aberto">>,
      <<"pesquisa", " ", "aberta">>,
      <<"repositório", " ", "institucional">>,
      <<"pesquisa", " ", "reproduzível">>,
      <<"science", " ", "ouverte">>,
      <<"données", " ", "ouvertes">>,
      <<"accès", " ", "libre">>,
      <<"recherche", " ", "ouverte">>,
      <<"dépôt", " ", "institutionnel">>,
      <<"recherche", " ", "reproductible">>,
      <<"scienza", " ", "aperta">>,
      <<"dati", " ", "aperti">>,
      <<"accesso", " ", "aperto">>,
      <<"ricerca", " ", "aperta">>,
      <<"repository", " ", "istituzionale">>,
      <<"ricerca", " ", "riproducibile">> >>,
    comunicacion_publica |-> <<
      <<"comunicación", " ", "científica">>,
      <<"divulgación", " ", "científica">>,
      <<"comunicación", " ", "pública", " ", "de", " ", "la", " ", "ciencia">>,
      <<"cultura", " ", "científica">>,
      <<"alfabetización", " ", "científica">>,
      <<"museo", " ", "de", " ", "la", " ", "ciencia">>,
      <<"science", " ", "communication">>,
      <<"public", " ", "engagement">>,
      <<"science", " ", "outreach">>,
      <<"science", " ", "literacy">>,
      <<"public", " ", "understanding", " ", "of", " ", "science">>,
      <<"science", " ", "museum">>,
      <<"science", " ", "culture">>,
      <<"comunicació", " ", "científica">>,
      <<"divulgació", " ", "científica">>,
      <<"comunicació", " ", "pública", " ", "de", " ", "la", " ", "ciència">>,
      <<"cultura", " ", "científica">>,
      <<"museu", " ", "de", " ", "la", " ", "ciència">>,
      <<"comunicação", " ", "científica">>,
      <<"divulgação", " ", "científica">>,
      <<"comunicação", " ", "pública", " ", "da", " ", "ciência">>,
      <<"cultura", " ", "científica">>,
      <<"museu", " ", "de", " ", "ciência">>,
      <<"communication", " ", "scientifique">>,
      <<"vulgarisation", " ", "scientifique">>,
      <<"culture", " ", "scientifique">>,
      <<"musée", " ", "de", " ", "science">>,
      <<"médiation", " ", "scientifique">>,
      <<"comunicazione", " ", "scientifica">>,
      <<"divulgazione", " ", "scientifica">>,
      <<"cultura", " ", "scientifica">>,
      <<"museo", " ", "della", " ", "scienza">> >>,
    diplomacia_cientifica |-> <<
      <<"diplomacia", " ", "científica">>,
      <<"cooperación", " ", "internacional", " ", "científica">>,
      <<"política", " ", "científica">>,
      <<"ciencia", " ", "global">>,
      <<"relaciones", " ", "internacionales", " ", "científicas">>,
      <<"science", " ", "diplomacy">>,
      <<"scientific", " ", "diplomacy">>,
      <<"international", " ", "scientific", " ", "cooperation">>,
      <<"global", " ", "science">>,
      <<"science", " ", "policy">>,
      <<"international", " ", "science", " ", "relations">>,
      <<"diplomàcia", " ", "científica">>,
      <<"cooperació", " ", "internacional", " ", "científica">>,
      <<"política", " ", "científica">>,
      <<"diplomacia", " ", "científica">>,
      <<"cooperação", " ", "internacional", " ", "científica">>,
      <<"política", " ", "científica">>,
      <<"diplomatie", " ", "scientifique">>,
      <<"coopération", " ", "internationale", " ", "scientifique">>,
      <<"politique", " ", "scientifique">>,
      <<"diplomazia", " ", "scientifica">>,
      <<"cooperazione", " ", "internazionale", " ", "scientifica">>,
      <<"politica", " ", "scientifica">> >> ]

(***************************************************************************)
(* The context of a hit, lines 457-466.  The window of the pattern and the *)
(* limit of line 466 count characters, so the context is computed on the   *)
(* characters of the text: Letras spells every word token of the catalogs  *)
(* and of the pages of the model; any other token is one character.        *)
(***************************************************************************)
Letras ==
  ("%pdf-1.4" :> <<"%", "p", "d", "f", "-", "1", ".", "4">>) @@
  ("aberta" :> <<"a", "b", "e", "r", "t", "a">>) @@
  ("aberto" :> <<"a", "b", "e", "r", "t", "o">>) @@
  ("abertos" :> <<"a", "b", "e", "r", "t", "o", "s">>) @@
  ("abierta" :> <<"a", "b", "i", "e", "r", "t", "a">>) @@
  ("abierto" :> <<"a", "b", "i", "e", "r", "t", "o">>) @@
  ("abiertos" :> <<"a", "b", "i", "e", "r", "t", "o", "s">>) @@
  ("about" :> <<"a", "b", "o", "u", "t">>) @@
  ("acceso" :> <<"a", "c", "c", "e", "s", "o">>) @@
  ("access" :> <<"a", "c", "c", "e", "s", "s">>) @@
  ("accesso" :> <<"a", "c", "c", "e", "s", "s", "o">>) @@
  ("accès" :> <<"a", "c", "c", "è", "s">>) @@
  ("accés" :> <<"a", "c", "c", "é", "s">>) @@
  ("acesso" :> <<"a", "c", "e", "s", "s", "o">>) @@
  ("alfabetización" :> <<"a", "l", "f", "a", "b", "e", "t", "i", "z", "a", "c", "i", "ó", "n">>) @@
  ("aperta" :> <<"a", "p", "e", "r", "t", "a">>) @@
  ("aperti" :> <<"a", "p", "e", "r", "t", "i">>) @@
  ("aperto" :> <<"a", "p", "e", "r", "t", "o">>) @@
  ("ciencia" :> <<"c", "i", "e", "n", "c", "i", "a">>) @@
  ("científica" :> <<"c", "i", "e", "n", "t", "í", "f", "i", "c", "a">>) @@
  ("científicas" :> <<"c", "i", "e", "n", "t", "í", "f", "i", "c", "a", "s">>) @@
  ("ciència" :> <<"c", "i", "è", "n", "c", "i", "a">>) @@
  ("ciência" :> <<"c", "i", "ê", "n", "c", "i", "a">>) @@
  ("college" :> <<"c", "o", "l", "l", "e", "g", "e">>) @@
  ("communication" :> <<"c", "o", "m", "m", "u", "n", "i", "c", "a", "t", "i", "o", "n">>) @@
  ("comunicació" :> <<"c", "o", "m", "u", "n", "i", "c", "a", "c", "i", "ó">>) @@
  ("comunicación" :> <<"c", "o", "m", "u", "n", "i", "c", "a", "c", "i", "ó", "n">>) @@
  ("comunicazione" :> <<"c", "o", "m", "u", "n", "i", "c", "a", "z", "i", "o", "n", "e">>) @@
  ("comunicação" :> <<"c", "o", "m", "u", "n", "i", "c", "a", "ç", "ã", "o">>) @@
  ("cooperació" :> <<"c", "o", "o", "p", "e", "r", "a", "c", "i", "ó">>) @@
  ("cooperación" :> <<"c", "o", "o", "p", "e", "r", "a", "c", "i", "ó", "n">>) @@
  ("cooperation" :> <<"c", "o", "o", "p", "e", "r", "a", "t", "i", "o", "n">>) @@
  ("cooperazione" :> <<"c", "o", "o", "p", "e", "r", "a", "z", "i", "o", "n", "e">>) @@
  ("cooperação" :> <<"c", "o", "o", "p", "e", "r", "a", "ç", "ã", "o">>) @@
  ("coopération" :> <<"c", "o", "o", "p", "é", "r", "a", "t", "i", "o", "n">>) @@
  ("cultura" :> <<"c", "u", "l", "t", "u", "r", "a">>) @@
  ("culture" :> <<"c", "u", "l", "t", "u", "r", "e">>) @@
  ("da" :> <<"d", "a">>) @@
  ("dades" :> <<"d", "a", "d", "e", "s">>) @@
  ("dados" :> <<"d", "a", "d", "o", "s">>) @@
  ("data" :> <<"d", "a", "t", "a">>) @@
  ("dati" :> <<"d", "a", "t", "i">>) @@
  ("datos" :> <<"d", "a", "t", "o", "s">>) @@
  ("de" :> <<"d", "e">>) @@
  ("della" :> <<"d", "e", "l", "l", "a">>) @@
  ("diplomacia" :> <<"d", "i", "p", "l", "o", "m", "a", "c", "i", "a">>) @@
  ("diplomacy" :> <<"d", "i", "p", "l", "o", "m", "a", "c", "y">>) @@
  ("diplomatie" :> <<"d", "i", "p", "l", "o", "m", "a", "t", "i", "e">>) @@
  ("diplomazia" :> <<"d", "i", "p", "l", "o", "m", "a", "z", "i", "a">>) @@
  ("diplomàcia" :> <<"d", "i", "p", "l", "o", "m", "à", "c", "i", "a">>) @@
  ("divulgació" :> <<"d", "i", "v", "u", "l", "g", "a", "c", "i", "ó">>) @@
  ("divulgación" :> <<"d", "i", "v", "u", "l", "g", "a", "c", "i", "ó", "n">>) @@
  ("divulgazione" :> <<"d", "i", "v", "u", "l", "g", "a", "z", "i", "o", "n", "e">>) @@
  ("divulgação" :> <<"d", "i", "v", "u", "l", "g", "a", "ç", "ã", "o">>) @@
  ("données" :> <<"d", "o", "n", "n", "é", "e", "s">>) @@
  ("dépôt" :> <<"d", "é", "p", "ô", "t">>) @@
  ("engagement" :> <<"e", "n", "g", "a", "g", "e", "m", "e", "n", "t">>) @@
  ("fair" :> <<"f", "a", "i", "r">>) @@
  ("global" :> <<"g", "l", "o", "b", "a", "l">>) @@
  ("harvard" :> <<"h", "a", "r", "v", "a", "r", "d">>) @@
  ("institucional" :> <<"i", "n", "s", "t", "i", "t", "u", "c", "i", "o", "n", "a", "l">>) @@
  ("institutional" :> <<"i", "n", "s", "t", "i", "t", "u", "t", "i", "o", "n", "a", "l">>) @@
  ("institutionnel" :> <<"i", "n", "s", "t", "i", "t", "u", "t", "i", "o", "n", "n", "e", "l">>) @@
  ("internacional" :> <<"i", "n", "t", "e", "r", "n", "a", "c", "i", "o", "n", "a", "l">>) @@
  ("internacionales" :> <<"i", "n", "t", "e", "r", "n", "a", "c", "i", "o", "n", "a", "l", "e", "s">>) @@
  ("international" :> <<"i", "n", "t", "e", "r", "n", "a", "t", "i", "o", "n", "a", "l">>) @@
  ("internationale" :> <<"i", "n", "t", "e", "r", "n", "a", "t", "i", "o", "n", "a", "l", "e">>) @@
  ("internazionale" :> <<"i", "n", "t", "e", "r", "n", "a", "z", "i", "o", "n", "a", "l", "e">>) @@
  ("investigació" :> <<"i", "n", "v", "e", "s", "t", "i", "g", "a", "c", "i", "ó">>) @@
  ("investigación" :> <<"i", "n", "v", "e", "s", "t", "i", "g", "a", "c", "i", "ó", "n">>) @@
  ("istituzionale" :> <<"i", "s", "t", "i", "t", "u", "z", "i", "o", "n", "a", "l", "e">>) @@
  ("la" :> <<"l", "a">>) @@
  ("libre" :> <<"l", "i", "b", "r", "e">>) @@
  ("literacy" :> <<"l", "i", "t", "e", "r", "a", "c", "y">>) @@
  ("museo" :> <<"m", "u", "s", "e", "o">>) @@
  ("museu" :> <<"m", "u", "s", "e", "u">>) @@
  ("museum" :> <<"m", "u", "s", "e", "u", "m">>) @@
  ("musée" :> <<"m", "u", "s", "é", "e">>) @@
  ("médiation" :> <<"m", "é", "d", "i", "a", "t", "i", "o", "n">>) @@
  ("obert" :> <<"o", "b", "e", "r", "t">>) @@
  ("oberta" :> <<"o", "b", "e", "r", "t", "a">>) @@
  ("obertes" :> <<"o", "b", "e", "r", "t", "e", "s">>) @@
  ("of" :> <<"o", "f">>) @@
  ("open" :> <<"o", "p", "e", "n">>) @@
  ("outreach" :> <<"o", "u", "t", "r", "e", "a", "c", "h">>) @@
  ("ouverte" :> <<"o", "u", "v", "e", "r", "t", "e">>) @@
  ("ouvertes" :> <<"o", "u", "v", "e", "r", "t", "e", "s">>) @@
  ("pesquisa" :> <<"p", "e", "s", "q", "u", "i", "s", "a">>) @@
  ("policy" :> <<"p", "o", "l", "i", "c", "y">>) @@
  ("politica" :> <<"p", "o", "l", "i", "t", "i", "c", "a">>) @@
  ("politique" :> <<"p", "o", "l", "i", "t", "i", "q", "u", "e">>) @@
  ("política" :> <<"p", "o", "l", "í", "t", "i", "c", "a">>) @@
  ("public" :> <<"p", "u", "b", "l", "i", "c">>) @@
  ("pública" :> <<"p", "ú", "b", "l", "i", "c", "a">>) @@
  ("ranking" :> <<"r", "a", "n", "k", "i", "n", "g">>) @@
  ("recherche" :> <<"r", "e", "c", "h", "e", "r", "c", "h", "e">>) @@
  ("relaciones" :> <<"r", "e", "l", "a", "c", "i", "o", "n", "e", "s">>) @@
  ("relations" :> <<"r", "e", "l", "a", "t", "i", "o", "n", "s">>) @@
  ("repositori" :> <<"r", "e", "p", "o", "s", "i", "t", "o", "r", "i">>) @@
  ("repositorio" :> <<"r", "e", "p", "o", "s", "i", "t", "o", "r", "i", "o">>) @@
  ("repository" :> <<"r", "e", "p", "o", "s", "i", "t", "o", "r", "y">>) @@
  ("repositório" :> <<"r", "e", "p", "o", "s", "i", "t", "ó", "r", "i", "o">>) @@
  ("reproducible" :> <<"r", "e", "p", "r", "o", "d", "u", "c", "i", "b", "l", "e">>) @@
  ("reproductible" :> <<"r", "e", "p", "r", "o", "d", "u", "c", "t", "i", "b", "l", "e">>) @@
  ("reproduzível" :> <<"r", "e", "p", "r", "o", "d", "u", "z", "í", "v", "e", "l">>) @@
  ("research" :> <<"r", "e", "s", "e", "a", "r", "c", "h">>) @@
  ("ricerca" :> <<"r", "i", "c", "e", "r", "c", "a">>) @@
  ("riproducibile" :> <<"r", "i", "p", "r", "o", "d", "u", "c", "i", "b", "i", "l", "e">>) @@
  ("school" :> <<"s", "c", "h", "o", "o", "l">>) @@
  ("science" :> <<"s", "c", "i", "e", "n", "c", "e">>) @@
  ("scientific" :> <<"s", "c", "i", "e", "n", "t", "i", "f", "i", "c">>) @@
  ("scientifica" :> <<"s", "c", "i", "e", "n", "t", "i", "f", "i", "c", "a">>) @@
  ("scientifique" :> <<"s", "c", "i", "e", "n", "t", "i", "f", "i", "q", "u", "e">>) @@
  ("scienza" :> <<"s", "c", "i", "e", "n", "z", "a">>) @@
  ("shop" :> <<"s", "h", "o", "p">>) @@
  ("top" :> <<"t", "o", "p">>) @@
  ("transparent" :> <<"t", "r", "a", "n", "s", "p", "a", "r", "e", "n", "t">>) @@
  ("understanding" :> <<"u", "n", "d", "e", "r", "s", "t", "a", "n", "d", "i", "n", "g">>) @@
  ("universities" :> <<"u", "n", "i", "v", "e", "r", "s", "i", "t", "i", "e", "s">>) @@
  ("university" :> <<"u", "n", "i", "v", "e", "r", "s", "i", "t", "y">>) @@
  ("vulgarisation" :> <<"v", "u", "l", "g", "a", "r", "i", "s", "a", "t", "i", "o", "n">>) @@
  ("wikipedia" :> <<"w", "i", "k", "i", "p", "e", "d", "i", "a">>)

\* the tokens that Letras spells
Deletreadas == DOMAIN Letras

\* the characters of a text, one single-character token each
RECURSIVE CaracteresEntre(_, _, _)
CaracteresEntre(texto, i, j) ==
  IF i > j THEN <<>>
  ELSE IF i = j
       THEN IF texto[i] \in Deletreadas THEN Letras[texto[i]] ELSE <<texto[i]>>
       ELSE LET medio == (i + j) \div 2
            IN CaracteresEntre(texto, i, medio) \o CaracteresEntre(texto, medio + 1, j)

Caracteres(texto) == CaracteresEntre(texto, 1, Len(texto))

\* .{0,100} on either side of the term, line 457
ancho_contexto == 100

\* the limit of line 466
max_contexto == 300

\* re.IGNORECASE on a lower-cased text: the two lower-case letters that the
\* pattern compares equal to an ASCII letter, the long s with s and the
\* dotless i with i; each is one character, named by its code point
PliegueRegex == ("U+017F" :> "s") @@ ("U+0131" :> "i")

Plegables == DOMAIN PliegueRegex

Plegar(ch) == IF ch \in Plegables THEN PliegueRegex[ch] ELSE ch

\* the escaped term matches the characters of s from position p on
CoincideEn(t, s, p) ==
  /\ p + Len(t) - 1 <= Len(s)
  /\ \A j \in 1..Len(t) : Plegar(s[p + j - 1]) = Plegar(t[j])

Ocurrencias(t, s) == { p \in 1..(Len(s) - Len(t) + 1) : CoincideEn(t, s, p) }

Minimo(S) == CHOOSE x \in S : \A y \in S : x <= y

Maximo(S) == CHOOSE x \in S : \A y \in S : y <= x

\* the pattern without its two limits: the whole text is the first match
PrimeraCoincidenciaSinLimite(t, s) == [desde |-> 1, hasta |-> Len(s)]

\* matches[0] of re.findall, lines 457-458 and 461: the leftmost start from
\* which an occurrence of the term begins at most ancho_contexto characters
\* later; the greedy prefix then reaches the last such occurrence, and the
\* greedy suffix takes up to ancho_contexto characters (DOTALL: any
\* character, a newline too)
PrimeraCoincidencia(t, s) ==
  LET oc == Ocurrencias(t, s)
      p1 == Minimo(oc)
      desde == IF p1 > ancho_contexto THEN p1 - ancho_contexto ELSE 1
      p == Maximo({ q \in oc : q <= desde + ancho_contexto })
      fin == p + Len(t) - 1
      hasta == IF Len(s) - fin > ancho_contexto THEN fin + ancho_contexto ELSE Len(s)
  IN [desde |-> desde, hasta |-> hasta]

\* what str.split() splits on
Blancos == {" ", "\n", "\t", "\r"}

\* lines 461-462: newlines and tabs replaced by spaces, then
\* ' '.join(contexto.split()): every run of whitespace becomes one space and
\* the ends are stripped
Limpiar(m) ==
  LET \* the whitespace character at k opens a run between two words
      Separa(k) ==
        /\ k > 1 /\ m[k - 1] \notin Blancos
        /\ \E j \in (k + 1)..Len(m) : m[j] \notin Blancos
      marcado == [ k \in 1..Len(m) |->
                     IF m[k] \notin Blancos THEN m[k]
                     ELSE IF Separa(k) THEN " " ELSE "" ]
      Queda(ch) == ch # ""
  IN SelectSeq(marcado, Queda)

\* line 466
Recortar(contexto) ==
  IF Len(contexto) > max_contexto
  THEN SubSeq(contexto, 1, max_contexto) \o <<".", ".", ".">>
  ELSE contexto

\* the contexto of the hit of a term, given the characters of the lower-case
\* term and of texto_lower
Contexto(t, s) ==
  LET m == PrimeraCoincidencia(t, s)
  IN Recortar(Limpiar(SubSeq(s, m.desde, m.hasta)))

(***************************************************************************)
(* buscar_terminos_en_texto(texto, terminos): one hit per catalog ENTRY    *)
(* whose lower-cased term occurs in the lower-cased text, in catalog       *)
(* order.  re.findall on texto_lower always matches when the substring     *)
(* test has succeeded, so every such entry appends a hit.                  *)
(***************************************************************************)
TerminoEnTexto(termino, texto_lower) == Contains(LowerText(termino), texto_lower)

buscar_terminos_en_texto(texto, terminos) ==
  LET texto_lower == LowerText(texto)
      letras_texto == Caracteres(texto_lower)
      encontrados[i \in 0..Len(terminos)] ==
        IF i = 0 THEN <<>>
        ELSE IF TerminoEnTexto(terminos[i], texto_lower)
             THEN Append(encontrados[i - 1],
                         [termino |-> terminos[i],
                          contexto |-> Contexto(Caracteres(LowerText(terminos[i])),
                                               letras_texto)])
             ELSE encontrados[i - 1]
  IN encontrados[Len(terminos)]


(***************************************************************************)
(* URLs.  A URL is a sequence of tokens: a scheme token ("https://"), the  *)
(* labels of the host, then path tokens, each "/" being a token of its     *)
(* own.  Keywords are whole tokens; the only token of the model that       *)
(* contains another keyword as a proper substring is listed below.         *)
(***************************************************************************)
SubcadenasDeToken == { <<"universidad", "universidade">> }

\* Python: palabra in tok, for two single tokens
TokContiene(tok, palabra) == tok = palabra \/ <<palabra, tok>> \in SubcadenasDeToken

\* Python: palabra in cadena, palabra being a single keyword
PalabraEn(palabra, cadena) == \E i \in 1..Len(cadena) : TokContiene(cadena[i], palabra)

\* tokens after which urlparse reads a netloc
EsquemasRed == {"https://", "http://", "ftp://", "//"}

\* schemes without a netloc
EsquemasOpacos == {"mailto:", "javascript:"}

\* tokens that end the netloc
Separadores == {"/", "?", "#"}

\* urlparse(url).netloc
Netloc(url) ==
  IF url = <<>> \/ url[1] \notin EsquemasRed THEN <<>>
  ELSE LET cortes == { i \in 2..Len(url) : url[i] \in Separadores }
           fin == IF cortes = {} THEN Len(url) + 1
                  ELSE CHOOSE i \in cortes : \A j \in cortes : i <= j
       IN SubSeq(url, 2, fin - 1)

\* urlparse(url).path and what follows it
RutaDe(url) ==
  IF url = <<>> \/ url[1] \notin EsquemasRed THEN url
  ELSE SubSeq(url, 2 + Len(Netloc(url)), Len(url))

\* the directory of a path: up to and including its last "/"
DirDe(ruta) ==
  LET barras == { i \in 1..Len(ruta) : ruta[i] = "/" }
  IN IF barras = {} THEN <<"/">>
     ELSE SubSeq(ruta, 1, CHOOSE i \in barras : \A j \in barras : j <= i)

\* urljoin and urlparse raise ValueError on an href with an unbalanced "["
UrlInvalida(href) == href # <<>> /\ href[1] = "http://["

\* urljoin(base, href), for an href on which it does not raise
urljoin(base, href) ==
  IF href = <<>> THEN base
  ELSE IF href[1] \in (EsquemasRed \ {"//"}) \cup EsquemasOpacos THEN href
  ELSE IF href[1] = "//" THEN <<base[1]>> \o Tail(href)
  ELSE IF href[1] = "/" THEN <<base[1]>> \o Netloc(base) \o href
  ELSE IF href[1] \in {"#", "?"} THEN base \o href
  ELSE <<base[1]>> \o Netloc(base) \o DirDe(RutaDe(base)) \o href

(***************************************************************************)
(* es_universidad(url, texto).                                             *)
(***************************************************************************)
\* Python's None, where a string attribute may be absent
None == "None"

patrones_universidad ==
  << ".edu($|/)", ".ac.", ".univ.", "university", "universidad", "universitat",
     "universidade", "université", "università", "college", "instituto" >>

palabras_universidad ==
  << "university", "universidad", "universitat", "universidade",
     "université", "università", "college", "instituto", "school" >>

\* re.search(patron, url_lower)
PatronEnUrl(patron, url_lower) ==
  IF patron = ".edu($|/)"
  THEN \E i \in 1..Len(url_lower) :
         /\ url_lower[i] = ".edu"
         /\ (i = Len(url_lower) \/ url_lower[i + 1] = "/")
  ELSE PalabraEn(patron, url_lower)

\* a Python value that is a string, and values that are not
Cadena(s) == [tipo |-> "str", valor |-> s]

NoCadenas == { [tipo |-> "NoneType", valor |-> <<>>], [tipo |-> "int", valor |-> <<>>] }

\* line 218 first: url is any Python value, texto a string
es_universidad(url, texto) ==
  IF url.tipo # "str" \/ url.valor = <<>> THEN FALSE
  ELSE LET url_lower == LowerText(url.valor)
           texto_lower == LowerText(texto)
       IN IF \E k \in 1..Len(patrones_universidad) :
               PatronEnUrl(patrones_universidad[k], url_lower)
          THEN TRUE
          ELSE /\ texto # <<>>
               /\ \E k \in 1..Len(palabras_universidad) :
                    PalabraEn(palabras_universidad[k], texto_lower)

(***************************************************************************)
(* extraer_info_universidad and its helpers.                               *)
(***************************************************************************)
\* limpiar_nombre_universidad: cut at the first "|", right angle quote
\* (token "rsaquo") or "- Google Search", then strip; the empty sequence
\* stands for both None and "", which the caller treats alike
limpiar_nombre_universidad(texto) ==
  IF texto = <<>> THEN <<>>
  ELSE LET cortes == { i \in 1..Len(texto) : texto[i] \in {"|", "rsaquo", "- Google Search"} }
           fin == IF cortes = {} THEN Len(texto) + 1
                  ELSE CHOOSE i \in cortes : \A j \in cortes : i <= j
           cuerpo == { i \in 1..(fin - 1) : texto[i] # " " }
       IN IF cuerpo = {} THEN <<>>
          ELSE SubSeq(texto, CHOOSE i \in cuerpo : \A j \in cuerpo : i <= j,
                             CHOOSE i \in cuerpo : \A j \in cuerpo : j <= i)

dominios_pais ==
  << <<".es", "España">>, <<".edu", "Estados Unidos">>, <<".uk", "Reino Unido">>,
     <<".ca", "Canadá">>, <<".au", "Australia">>, <<".de", "Alemania">>,
     <<".fr", "Francia">>, <<".it", "Italia">>, <<".br", "Brasil">>,
     <<".ar", "Argentina">>, <<".mx", "México">>, <<".cl", "Chile">>,
     <<".co", "Colombia">>, <<".pe", "Perú">>, <<".jp", "Japón">>,
     <<".cn", "China">>, <<".in", "India">>, <<".nl", "Países Bajos">>,
     <<".ch", "Suiza">>, <<".se", "Suecia">>, <<".no", "Noruega">> >>

determinar_pais_por_dominio(dominio) ==
  IF dominio = <<>> THEN "Desconocido"
  ELSE LET ks == { k \in 1..Len(dominios_pais) : dominio[Len(dominio)] = dominios_pais[k][1] }
       IN IF ks = {} THEN "Internacional"
          ELSE dominios_pais[CHOOSE k \in ks : \A j \in ks : k <= j][2]

\* url.startswith('http')
EmpiezaConHttp(url) == url # <<>> /\ url[1] \in {"https://", "http://", "http://["}

\* the value extraer_info_universidad returns instead of a record
SinInfo == [ninguna |-> TRUE]

\* a ValueError of urlparse is caught and None returned
extraer_info_universidad(url, texto) ==
  IF ~EmpiezaConHttp(url) \/ UrlInvalida(url) THEN SinInfo
  ELSE LET domain == Netloc(url)
           limpio == limpiar_nombre_universidad(texto)
       IN [ nombre |-> IF limpio = <<>> THEN domain ELSE limpio,
            url |-> url,
            dominio |-> domain,
            pais |-> determinar_pais_por_dominio(domain),
            texto_original |-> texto ]

(***************************************************************************)
(* A parsed page (the BeautifulSoup object): the lang attribute of its     *)
(* html tag (None when absent), its text (get_text()) and its anchors with *)
(* an href, in document order.                                             *)
(***************************************************************************)
idiomas_palabras ==
  << <<"español",   <<"universidad", "investigación", "ciencia", "estudiantes", "facultad">> >>,
     <<"catalán",   <<"universitat", "investigació", "ciència", "estudiants", "facultat">> >>,
     <<"inglés",    <<"university", "research", "science", "students", "faculty">> >>,
     <<"portugués", <<"universidade", "pesquisa", "ciência", "estudantes", "faculdade">> >>,
     <<"francés",   <<"université", "recherche", "science", "étudiants", "faculté">> >>,
     <<"italiano",  <<"università", "ricerca", "scienza", "studenti", "facoltà">> >> >>

\* the vote with max replaced by a scan that keeps the last highest count
detectar_idioma_ultimo(soup) ==
  IF soup.lang # None THEN soup.lang
  ELSE LET texto == LowerText(soup.texto)
           score(k) == Cardinality({ j \in 1..Len(idiomas_palabras[k][2]) :
                                       PalabraEn(idiomas_palabras[k][2][j], texto) })
           ks == 1..Len(idiomas_palabras)
           mejor == CHOOSE k \in ks :
                      /\ \A j \in ks : score(j) <= score(k)
                      /\ \A j \in ks : j > k => score(j) < score(k)
       IN idiomas_palabras[mejor][1]

\* detectar_idioma(soup): the lang attribute when the html tag has one,
\* otherwise the first language with the highest keyword count
detectar_idioma(soup) ==
  IF soup.lang # None THEN soup.lang
  ELSE LET texto == LowerText(soup.texto)
           score(k) == Cardinality({ j \in 1..Len(idiomas_palabras[k][2]) :
                                       PalabraEn(idiomas_palabras[k][2][j], texto) })
           ks == 1..Len(idiomas_palabras)
           mejor == CHOOSE k \in ks :
                      /\ \A j \in ks : score(j) <= score(k)
                      /\ \A j \in ks : j < k => score(j) < score(k)
       IN idiomas_palabras[mejor][1]

palabras_clave ==
  << "research", "investigación", "investigació", "pesquisa", "recherche", "ricerca",
     "science", "ciencia", "ciència", "ciência", "scienza",
     "open", "abierto", "obert", "aberto", "ouvert", "aperto",
     "communication", "comunicación", "comunicació", "comunicação", "comunicazione",
     "outreach", "divulgación", "divulgació", "divulgação",
     "policy", "política", "política", "politique", "politica" >>

\* lines 436-440: a keyword occurs in the lower-cased href or anchor text
EsRelevante(enlace) ==
  LET href == LowerText(enlace.href)
      texto == LowerText(enlace.texto)
  IN \E k \in 1..Len(palabras_clave) :
       PalabraEn(palabras_clave[k], href) \/ PalabraEn(palabras_clave[k], texto)

\* line 444 without the comparison of the hosts
MismoSitioSiempre(url_completa, base_url) == TRUE

\* line 444: the resolved URL is on the host of base_url
MismoSitio(url_completa, base_url) == Netloc(url_completa) = Netloc(base_url)

\* encontrar_paginas_relevantes raises when urljoin does
EncontrarFalla(soup) ==
  \E i \in 1..Len(soup.enlaces) :
    EsRelevante(soup.enlaces[i]) /\ UrlInvalida(soup.enlaces[i].href)

\* encontrar_paginas_relevantes(soup, base_url), when it does not raise
encontrar_paginas_relevantes(soup, base_url) ==
  LET enlaces == soup.enlaces
      urls_relevantes[i \in 0..Len(enlaces)] ==
        IF i = 0 THEN <<>>
        ELSE LET previas == urls_relevantes[i - 1]
                 url_completa == urljoin(base_url, enlaces[i].href)
             IN IF /\ EsRelevante(enlaces[i])
                   /\ url_completa \notin Range(previas)
                   /\ Len(previas) < 15
                   /\ MismoSitio(url_completa, base_url)
                THEN Append(previas, url_completa)
                ELSE previas
  IN urls_relevantes[Len(enlaces)]

(***************************************************************************)
(* State.                                                                  *)
(***************************************************************************)
VARIABLES
  \* a call of a pure method on its own: the arguments and the value returned
  llamada, retorno,
  \* analizar_universidad: its argument, the scorecard under construction,
  \* its position, and its local variables
  universidad, resultado, pc_scan, respuesta, soup, texto_completo,
  urls_relevantes, indice, contenido_adicional, todo_contenido,
  \* what the current scan has done so far: requests, sleeps, link discovery
  \* and scoring, in order
  eventos,
  \* ejecutar_busqueda_completa: its position, the loop indices, the local
  \* list of buscar_universidades_google, and the two attributes of self
  pc_run, cat_i, term_j, encontradas_busqueda,
  universidades_encontradas, resultados_analisis, analisis_k,
  \* the calls made to progreso_callback, in order
  progreso,
  \* the URLs of the candidates the searches of this run accepted, in the
  \* order the search pages listed them
  descubiertas,
  \* the use of the network since the run (or the scan on its own) began:
  \* the URLs requested from the search engine, in order; whether a request
  \* has been made and time.sleep has not been called since; and the URLs of
  \* the sites whose primary request failed
  consultas, pausa_pendiente, sitios_fallidos

varsLlamada == <<llamada, retorno>>

varsScan == <<universidad, resultado, pc_scan, respuesta, soup, texto_completo,
              urls_relevantes, indice, contenido_adicional, todo_contenido, eventos>>

varsRun == <<pc_run, cat_i, term_j, encontradas_busqueda,
             universidades_encontradas, resultados_analisis, analisis_k, progreso,
             descubiertas>>

varsRed == <<consultas, pausa_pendiente, sitios_fallidos>>

vars == <<varsLlamada, varsScan, varsRun, varsRed>>

(***************************************************************************)
(* The network, as analizar_universidad sees it.  requests.get either      *)
(* raises or returns a response with a status code, a content type and a   *)
(* body; the body is either markup the parser rejects (BeautifulSoup       *)
(* raises) or a page.  The code reads status_code and text only.           *)
(***************************************************************************)
Estados == {200, 404}

Pagina(lang, texto, enlaces) ==
  [valido |-> TRUE, lang |-> lang, texto |-> texto, enlaces |-> enlaces]

\* a body on which BeautifulSoup(response.text, 'html.parser') raises
Rechazado == [valido |-> FALSE, lang |-> None, texto |-> <<>>, enlaces |-> <<>>]

\* the content types a server declares
TiposTexto == {"text/html"}

TiposBinarios == {"application/pdf"}

Excepcion == [exc |-> TRUE, status |-> 0, tipo |-> "", cuerpo |-> Rechazado]

RespuestaDeTipo(status, tipo, cuerpo) ==
  [exc |-> FALSE, status |-> status, tipo |-> tipo, cuerpo |-> cuerpo]

Respuesta(status, cuerpo) == RespuestaDeTipo(status, "text/html", cuerpo)

\* a status test that only rejects server errors
EstadoOkLaxo(status) == status < 500

\* line 334 and line 354: response.status_code == 200
EstadoOk(status) == status = 200

Evento(op, url, ok, texto) == [op |-> op, url |-> url, ok |-> ok, texto |-> texto]

\* a call of requests.get by the scan: the URL and whether the response
\* had status 200 and was taken; if so, the text read from it and the
\* content type the server declared
Peticion(url, ok, texto, tipo) ==
  [op |-> "get", url |-> url, ok |-> ok, texto |-> texto,
   tipo |-> IF ok THEN tipo ELSE ""]

(***************************************************************************)
(* analizar_universidad(universidad)                                       *)
(***************************************************************************)
CategoriaVacia == [encontrado |-> FALSE, terminos |-> <<>>, score |-> 0]

\* lines 314-328
ResultadoInicial(u) ==
  [ nombre |-> u.nombre,
    url |-> u.url,
    pais |-> u.pais,
    categoria_encontrada |->
      IF "categoria_encontrada" \in DOMAIN u THEN u.categoria_encontrada ELSE "Búsqueda",
    termino_busqueda |->
      IF "termino_busqueda" \in DOMAIN u THEN u.termino_busqueda ELSE "",
    accesible |-> FALSE,
    idioma_detectado |-> "",
    ciencia_abierta |-> CategoriaVacia,
    comunicacion_publica |-> CategoriaVacia,
    diplomacia_cientifica |-> CategoriaVacia,
    contenido_muestra |-> <<>>,
    urls_analizadas |-> <<>> ]

\* line 335 left out: accesible is not set when the response arrives
TrasGetTardio(res) == res

\* line 335
TrasGet(res) == [res EXCEPT !.accesible = TRUE]

\* texto_completo[:500], the length being counted in tokens
Muestra(texto) == SubSeq(texto, 1, IF Len(texto) < 500 THEN Len(texto) ELSE 500)

\* lines 339-344
TrasParse(res, pagina, url) ==
  [res EXCEPT !.idioma_detectado = detectar_idioma(pagina),
              !.contenido_muestra = Muestra(pagina.texto),
              !.urls_analizadas = Append(@, url)]

\* urls_relevantes[:3]
Primeras3(urls) == SubSeq(urls, 1, IF Len(urls) < 3 THEN Len(urls) ELSE 3)

\* break instead of continue at line 360: the loop is left
TrasFalloAbandona(i, n) == n + 1

\* lines 359-360: the index of the next link after one whose fetch raised
TrasFalloAdicional(i, n) == i + 1

\* lines 366-384 for one category
ResultadoCategoria(todo, categoria) ==
  LET terminos == buscar_terminos_en_texto(todo, terminos_validacion[categoria])
  IN [encontrado |-> Len(terminos) > 0, terminos |-> terminos, score |-> Len(terminos)]

\* lines 365-384
Puntuar(res, todo) ==
  [res EXCEPT !.ciencia_abierta = ResultadoCategoria(todo, "ciencia_abierta"),
              !.comunicacion_publica = ResultadoCategoria(todo, "comunicacion_publica"),
              !.diplomacia_cientifica = ResultadoCategoria(todo, "diplomacia_cientifica")]

\* the state on entry of analizar_universidad(u)
EntrarScan(u) ==
  /\ universidad' = u
  /\ resultado' = ResultadoInicial(u)
  /\ pc_scan' = "get"
  /\ respuesta' = Excepcion
  /\ soup' = Rechazado
  /\ texto_completo' = <<>>
  /\ urls_relevantes' = <<>>
  /\ indice' = 0
  /\ contenido_adicional' = <<>>
  /\ todo_contenido' = <<>>
  /\ eventos' = <<>>

\* analizar_universidad has returned to ejecutar_busqueda_completa: its
\* local variables are gone
SalirScan ==
  /\ universidad' = universidad
  /\ resultado' = ResultadoInicial(universidad)
  /\ pc_scan' = "ocioso"
  /\ respuesta' = Excepcion
  /\ soup' = Rechazado
  /\ texto_completo' = <<>>
  /\ urls_relevantes' = <<>>
  /\ indice' = 0
  /\ contenido_adicional' = <<>>
  /\ todo_contenido' = <<>>
  /\ eventos' = <<>>

(***************************************************************************)
(* The inputs of a scan: the pages and responses the network may return.   *)
(***************************************************************************)
\* most anchors on a page
MaxEnlaces == 4

universidad_control ==
  [ nombre |-> <<"Universitat", " ", "Jaume", " ", "I">>,
    url |-> <<"https://", "www.", "uji", ".es">>,
    pais |-> "España",
    idioma |-> "Catalán/Español" ]

TextosPagina ==
  { <<>>, <<"Open", " ", "science">>, <<"cultura", " ", "científica">> }

TextosAdicionales ==
  { <<"cultura", " ", "científica">>, <<"science", " ", "policy">> }

\* the anchors a page of the model can hold, in document order: a page
\* holds any at most MaxEnlaces of them
Enlaces ==
  << [href |-> <<"/", "research">>, texto |-> <<"Research">>],
     [href |-> <<"https://", "other", ".com", "/", "research">>, texto |-> <<"Research">>],
     [href |-> <<"/", "about">>, texto |-> <<"about">>],
     [href |-> <<"/", "x">>, texto |-> <<"Open", " ", "science">>],
     [href |-> <<>>, texto |-> <<"Research">>],
     [href |-> <<"ciencia">>, texto |-> <<>>],
     [href |-> <<"http://[", "research">>, texto |-> <<>>] >>

\* the elements of lista at the positions in S, in order
Seleccion(lista, S) ==
  LET sel[k \in 0..Len(lista)] ==
        IF k = 0 THEN <<>>
        ELSE IF k \in S THEN Append(sel[k - 1], lista[k]) ELSE sel[k - 1]
  IN sel[Len(lista)]

EnlacesDePagina ==
  { Seleccion(Enlaces, S) :
      S \in { T \in SUBSET (1..Len(Enlaces)) : Cardinality(T) <= MaxEnlaces } }

\* inside a complete run, the page of the control institution, with one
\* relevant link, and the page of every candidate, with none
PaginaRun ==
  Pagina(None, <<"Open", " ", "science">>,
         << [href |-> <<"/", "research">>, texto |-> <<"Research">>] >>)

PaginaCandidato == Pagina("en", <<"cultura", " ", "científica">>, <<>>)

\* the body of an error response
PaginaError == Pagina(None, <<"Open", " ", "science">>, <<>>)

\* what html.parser makes of response.text when the body is a PDF file: no
\* tag, the decoded bytes as text
PaginaBinaria == Pagina(None, <<"%PDF-1.4">>, <<>>)

CuerposPrimarios ==
  IF pc_run = "solo"
  THEN {Rechazado} \cup
       { Pagina(lang, texto, enlaces) :
           lang \in {None, "en"}, texto \in TextosPagina,
           enlaces \in EnlacesDePagina }
  ELSE IF universidad.url = universidad_control.url THEN {PaginaRun}
       ELSE {PaginaCandidato}

CuerposAdicionales ==
  {Rechazado} \cup { Pagina(None, texto, <<>>) : texto \in TextosAdicionales }

\* responses with a binary body, which the scan on its own also meets
RespuestasBinarias ==
  IF pc_run = "solo"
  THEN { RespuestaDeTipo(200, t, PaginaBinaria) : t \in TiposBinarios }
  ELSE {}

RespuestasDe(cuerpos) ==
  {Excepcion} \cup { Respuesta(s, PaginaError) : s \in Estados \ {200} }
              \cup { Respuesta(200, c) : c \in cuerpos }
              \cup RespuestasBinarias

\* the responses to the request of a followed link; inside a complete run
\* the request of a followed link fails, by an exception or by its status
RespuestasAdicionales ==
  IF pc_run = "solo" THEN RespuestasDe(CuerposAdicionales)
  ELSE {Excepcion} \cup { Respuesta(s, PaginaError) : s \in Estados \ {200} }

(***************************************************************************)
(* The steps of analizar_universidad.                                      *)
(***************************************************************************)
\* lines 330-335: the primary request
ScanGet ==
  /\ pc_scan = "get"
  /\ \E r \in RespuestasDe(CuerposPrimarios) :
       /\ eventos' = Append(eventos, Peticion(universidad.url, ~r.exc /\ r.status = 200, <<>>, r.tipo))
       /\ IF ~r.exc /\ EstadoOk(r.status)
          THEN /\ resultado' = TrasGet(resultado)
               /\ respuesta' = r
               /\ pc_scan' = "parse"
          ELSE /\ pc_scan' = "fin"
               /\ UNCHANGED <<resultado, respuesta>>
       /\ sitios_fallidos' = IF ~r.exc /\ r.status = 200 THEN sitios_fallidos
                              ELSE sitios_fallidos \cup {universidad.url}
  /\ pausa_pendiente' = TRUE
  /\ UNCHANGED <<universidad, soup, texto_completo, urls_relevantes, indice,
                 contenido_adicional, todo_contenido>>
  /\ UNCHANGED <<varsLlamada, varsRun, consultas>>

\* lines 336-344: parse the page, detect its language, sample its text
ScanParse ==
  /\ pc_scan = "parse"
  /\ IF respuesta.cuerpo.valido
     THEN /\ soup' = respuesta.cuerpo
          /\ texto_completo' = respuesta.cuerpo.texto
          /\ resultado' = TrasParse(resultado, respuesta.cuerpo, universidad.url)
          /\ pc_scan' = "enlaces"
     ELSE /\ pc_scan' = "fin"
          /\ UNCHANGED <<soup, texto_completo, resultado>>
  /\ UNCHANGED <<universidad, respuesta, urls_relevantes, indice,
                 contenido_adicional, todo_contenido, eventos>>
  /\ UNCHANGED <<varsLlamada, varsRun, varsRed>>

\* lines 346-350: link discovery
ScanEnlaces ==
  /\ pc_scan = "enlaces"
  /\ eventos' = Append(eventos, Evento("enlaces", <<>>, ~EncontrarFalla(soup), <<>>))
  /\ IF EncontrarFalla(soup)
     THEN /\ pc_scan' = "fin"
          /\ UNCHANGED <<urls_relevantes, indice, contenido_adicional>>
     ELSE /\ urls_relevantes' = encontrar_paginas_relevantes(soup, universidad.url)
          /\ contenido_adicional' = <<>>
          /\ indice' = 1
          /\ pc_scan' = "bucle"
  /\ UNCHANGED <<universidad, resultado, respuesta, soup, texto_completo, todo_contenido>>
  /\ UNCHANGED <<varsLlamada, varsRun, varsRed>>

\* lines 351-360: one iteration of the loop over urls_relevantes[:3]
ScanAdicional ==
  /\ pc_scan = "bucle"
  /\ indice <= Len(Primeras3(urls_relevantes))
  /\ LET url_adicional == Primeras3(urls_relevantes)[indice]
     IN \E r \in RespuestasAdicionales :
          IF r.exc \/ (EstadoOk(r.status) /\ ~r.cuerpo.valido)
          THEN \* requests.get or BeautifulSoup raised: except, continue
               /\ eventos' = Append(eventos, Peticion(url_adicional, FALSE, <<>>, r.tipo))
               /\ indice' = TrasFalloAdicional(indice, Len(Primeras3(urls_relevantes)))
               /\ pausa_pendiente' = TRUE
               /\ UNCHANGED <<contenido_adicional, resultado>>
          ELSE IF EstadoOk(r.status)
          THEN /\ contenido_adicional' = contenido_adicional \o <<" ">> \o r.cuerpo.texto
               /\ resultado' = [resultado EXCEPT !.urls_analizadas = Append(@, url_adicional)]
               /\ eventos' = eventos \o << Peticion(url_adicional, TRUE, r.cuerpo.texto, r.tipo),
                                           Evento("sleep", <<>>, TRUE, <<>>) >>
               /\ indice' = indice + 1
               /\ pausa_pendiente' = FALSE
          ELSE /\ eventos' = eventos \o << Peticion(url_adicional, FALSE, <<>>, r.tipo),
                                           Evento("sleep", <<>>, TRUE, <<>>) >>
               /\ indice' = indice + 1
               /\ pausa_pendiente' = FALSE
               /\ UNCHANGED <<contenido_adicional, resultado>>
  /\ pc_scan' = "bucle"
  /\ UNCHANGED <<universidad, respuesta, soup, texto_completo, urls_relevantes, todo_contenido>>
  /\ UNCHANGED <<varsLlamada, varsRun, consultas, sitios_fallidos>>

\* lines 362-384: join the texts and score the three categories
ScanPuntuar ==
  /\ pc_scan = "bucle"
  /\ indice > Len(Primeras3(urls_relevantes))
  /\ todo_contenido' = texto_completo \o <<" ">> \o contenido_adicional
  /\ resultado' = Puntuar(resultado, todo_contenido')
  /\ eventos' = Append(eventos, Evento("puntuar", <<>>, TRUE, <<>>))
  /\ pc_scan' = "fin"
  /\ UNCHANGED <<universidad, respuesta, soup, texto_completo, urls_relevantes,
                 indice, contenido_adicional>>
  /\ UNCHANGED <<varsLlamada, varsRun, varsRed>>

PasoScan == ScanGet \/ ScanParse \/ ScanEnlaces \/ ScanAdicional \/ ScanPuntuar

(***************************************************************************)
(* What a search page can hold: anchors, each with the flag '/url?q=' in   *)
(* href, the URL that follows it and the anchor text.                      *)
(***************************************************************************)
Ancla(es_resultado, url_real, texto) ==
  [es_resultado |-> es_resultado, url_real |-> url_real, texto |-> texto]

AnclaHarvard ==
  Ancla(TRUE, <<"https://", "harvard", ".edu", "/">>, <<"Harvard", " ", "University">>)

AnclaHarvardResearch ==
  Ancla(TRUE, <<"https://", "harvard", ".edu", "/", "research">>, <<"Research">>)

AnclaTienda == Ancla(TRUE, <<"https://", "shop", ".com", "/">>, <<"Shop">>)

AnclaFtp == Ancla(TRUE, <<"ftp://", "college", ".edu", "/">>, <<"College">>)

AnclaInterna ==
  Ancla(FALSE, <<"https://", "harvard", ".edu", "/">>, <<"Harvard", " ", "University">>)

\* the search pages of the model
PaginasBusqueda ==
  { <<>>,
    <<AnclaHarvard>>,
    <<AnclaHarvardResearch>>,
    <<AnclaHarvard, AnclaHarvardResearch>>,
    <<AnclaHarvardResearch, AnclaTienda, AnclaHarvard>>,
    <<AnclaHarvard, AnclaInterna, AnclaHarvard>>,
    <<AnclaTienda, AnclaFtp>>,
    <<AnclaInterna, AnclaFtp, AnclaHarvardResearch>> }

\* the body of the response to a search request
PaginaBusqueda(anclas) == [valido |-> TRUE, anclas |-> anclas]

\* a body on which BeautifulSoup raises at line 187
BusquedaRechazada == [valido |-> FALSE, anclas |-> <<>>]

\* what requests.get of line 184 does: it raises, or returns a response
RespuestasBusqueda ==
  { [exc |-> TRUE, status |-> 0, cuerpo |-> BusquedaRechazada] }
    \cup { Respuesta(s, PaginaBusqueda(<<>>)) : s \in Estados \ {200} }
    \cup { Respuesta(200, c) :
             c \in {BusquedaRechazada} \cup { PaginaBusqueda(a) : a \in PaginasBusqueda } }

\* lines 181-182: the URL of the search request for a term
Consulta(termino) == <<"https://www.google.com/search?q=", termino, "&num=10">>

\* break instead of continue at line 212: the remaining terms are dropped
TrasFalloBusquedaAbandona(j, n) == n + 1

\* lines 210-212: the index of the next term after a search that raised
TrasFalloBusqueda(j, n) == j + 1

\* lines 200-201: the two keys added to the record of a candidate
ConCategoria(info, categoria, termino) ==
  [ nombre |-> info.nombre, url |-> info.url, dominio |-> info.dominio,
    pais |-> info.pais, texto_original |-> info.texto_original,
    categoria_encontrada |-> categoria, termino_busqueda |-> termino ]

(***************************************************************************)
(* Initial states.                                                         *)
(***************************************************************************)
Pendiente == [pendiente |-> TRUE]

Devuelto(valor) == [pendiente |-> FALSE, valor |-> valor]

SinLlamada ==
  /\ llamada = [fn |-> "ninguna"]
  /\ retorno = Pendiente

ScanEn(u, pc) ==
  /\ universidad = u
  /\ resultado = ResultadoInicial(u)
  /\ pc_scan = pc
  /\ respuesta = Excepcion
  /\ soup = Rechazado
  /\ texto_completo = <<>>
  /\ urls_relevantes = <<>>
  /\ indice = 0
  /\ contenido_adicional = <<>>
  /\ todo_contenido = <<>>
  /\ eventos = <<>>

RunEn(pc) ==
  /\ pc_run = pc
  /\ cat_i = 0
  /\ term_j = 0
  /\ encontradas_busqueda = <<>>
  /\ universidades_encontradas = <<>>
  /\ resultados_analisis = <<>>
  /\ analisis_k = 0
  /\ progreso = <<>>
  /\ descubiertas = <<>>

\* nothing has been requested yet
RedEnReposo ==
  /\ consultas = <<>>
  /\ pausa_pendiente = FALSE
  /\ sitios_fallidos = {}

(***************************************************************************)
(* buscar_terminos_en_texto on its own, for every text up to MaxTextLen    *)
(* tokens over Vocabulario and the catalog of every category.              *)
(***************************************************************************)
Vocabulario == {"Open", " ", "science", "policy", "global", "cultura", "científica"}

InitTerminos ==
  /\ llamada \in { [fn |-> "buscar_terminos_en_texto", texto |-> t, categoria |-> c] :
                     t \in SeqsUpTo(Vocabulario, MaxTextLen), c \in Categorias }
  /\ retorno = Pendiente
  /\ ScanEn(universidad_control, "ocioso")
  /\ RunEn("solo")
  /\ RedEnReposo

LlamarBuscarTerminos ==
  /\ llamada.fn = "buscar_terminos_en_texto"
  /\ retorno = Pendiente
  /\ retorno' = Devuelto(buscar_terminos_en_texto(llamada.texto,
                                                  terminos_validacion[llamada.categoria]))
  /\ UNCHANGED <<llamada, varsScan, varsRun, varsRed>>

SpecTerminos == InitTerminos /\ [][LlamarBuscarTerminos]_vars

(***************************************************************************)
(* buscar_terminos_en_texto on long texts: a term of the catalog with      *)
(* filler before and after it, of lengths around the width of the window,  *)
(* alone, followed by a second occurrence, or preceded by a spelling that  *)
(* only the pattern takes for the term.                                    *)
(***************************************************************************)
MaxRelleno == 120

\* filler characters: a letter only, or letters among runs of whitespace
CicloMixto == <<"x", " ", "\n", "x", "\t", "\r", " ", "x", "x", " ">>

Rellenos == {"letras", "mixto"}

Relleno(clase, n) ==
  [ i \in 1..n |-> IF clase = "letras" THEN "x"
                   ELSE CicloMixto[((i - 1) % Len(CicloMixto)) + 1] ]

LargosAntes == {0, ancho_contexto, ancho_contexto + 1}

LargosDespues == {0, ancho_contexto, MaxRelleno}

\* the characters of a term with its first s or i replaced by the letter
\* that re.IGNORECASE compares equal to it
Variante(termino) ==
  LET t == Caracteres(termino)
      S == { k \in 1..Len(t) : t[k] \in {"s", "i"} }
      k1 == Minimo(S)
  IN IF S = {} THEN t
     ELSE [t EXCEPT ![k1] = IF t[k1] = "s" THEN "U+017F" ELSE "U+0131"]

TextosLargos(categoria) ==
  UNION { LET base == Relleno(r, a) \o T \o Relleno(r, b)
          IN { base,
               base \o T \o Relleno(r, MaxRelleno),
               Variante(T) \o base }
          : T \in Range(terminos_validacion[categoria]),
            r \in Rellenos, a \in LargosAntes, b \in LargosDespues }

InitContexto ==
  /\ llamada \in UNION { { [fn |-> "buscar_terminos_en_texto", texto |-> t,
                              categoria |-> c] : t \in TextosLargos(c) } :
                           c \in Categorias }
  /\ retorno = Pendiente
  /\ ScanEn(universidad_control, "ocioso")
  /\ RunEn("solo")
  /\ RedEnReposo

SpecContexto == InitContexto /\ [][LlamarBuscarTerminos]_vars

(***************************************************************************)
(* es_universidad on its own, for URLs of a scheme, up to MaxHost host     *)
(* tokens and a path, and a few titles.                                    *)
(***************************************************************************)
MaxHost == 2

TokensHost ==
  { "wikipedia", "ranking", "blogspot", "archive", "harvard", "University",
    "shop", ".edu", ".org", ".com" }

RutasClasif == { <<>>, <<"/">>, <<"/", "top100">>, <<"/", "wiki", "/", "college">> }

TitulosClasif ==
  { <<>>, <<"Harvard", " ", "University">>, <<"Top", " ", "Universities", " ", "Ranking">>,
    <<"School">>, <<"Shop">> }

\* strings that are not URLs: no scheme, a scheme without a host, an
\* unbalanced bracket
UrlsMalformadas ==
  { <<"Harvard", " ", "University">>, <<"shop">>, <<"https://">>,
    <<"http://[", "college">>, <<"http://[", "shop">> }

UrlsClasif ==
  {<<>>} \cup UrlsMalformadas \cup
  { <<esquema>> \o host \o ruta :
      esquema \in {"https://", "ftp://"},
      host \in SeqsUpTo(TokensHost, MaxHost) \ {<<>>},
      ruta \in RutasClasif }

InitClasif ==
  /\ llamada \in { [fn |-> "es_universidad", url |-> u, texto |-> t] :
                     u \in NoCadenas \cup { Cadena(v) : v \in UrlsClasif },
                     t \in TitulosClasif }
  /\ retorno = Pendiente
  /\ ScanEn(universidad_control, "ocioso")
  /\ RunEn("solo")
  /\ RedEnReposo

LlamarEsUniversidad ==
  /\ llamada.fn = "es_universidad"
  /\ retorno = Pendiente
  /\ retorno' = Devuelto(es_universidad(llamada.url, llamada.texto))
  /\ UNCHANGED <<llamada, varsScan, varsRun, varsRed>>

SpecClasif == InitClasif /\ [][LlamarEsUniversidad]_vars

(***************************************************************************)
(* analizar_universidad on its own: the control institution or a candidate *)
(* of a search, against every page and response of the model.              *)
(***************************************************************************)
UniversidadesScan ==
  { universidad_control,
    ConCategoria(extraer_info_universidad(<<"https://", "harvard", ".edu", "/", "a", "/", "b">>,
                                          <<"Harvard", " ", "University">>),
                 "ciencia_abierta", "universidad ciencia abierta") }

InitScan ==
  /\ SinLlamada
  /\ RunEn("solo")
  /\ RedEnReposo
  /\ \E u \in UniversidadesScan : ScanEn(u, "get")

SpecScan == InitScan /\ [][PasoScan]_vars

(***************************************************************************)
(* buscar_universidades_google(terminos_categoria, categoria,              *)
(* max_resultados): the treatment of one search page.                      *)
(***************************************************************************)
\* insert(0, ...) instead of append at line 202
AgregarAlFrente(lista, u) == <<u>> \o lista

\* line 202: where a new candidate goes in the list
Agregar(lista, u) == Append(lista, u)

\* lines 190-205: the loop over the anchors of one search page, which stops
\* at the break of line 205
ProcesarAnclas(lista, anclas, categoria, termino, max_resultados) ==
  LET paso[i \in 0..Len(anclas)] ==
        IF i = 0 THEN [lista |-> lista, roto |-> FALSE]
        ELSE LET prev == paso[i - 1]
                 a == anclas[i]
                 info == extraer_info_universidad(a.url_real, a.texto)
             IN IF prev.roto THEN prev
                ELSE IF /\ a.es_resultado
                        /\ es_universidad(Cadena(a.url_real), a.texto)
                        /\ info # SinInfo
                        /\ info \notin Range(prev.lista)
                     THEN LET nueva == Agregar(prev.lista, ConCategoria(info, categoria, termino))
                          IN [lista |-> nueva, roto |-> Len(nueva) >= max_resultados]
                     ELSE prev
  IN paso[Len(anclas)].lista

\* the URLs of the anchors of one search page that line 197 and line 199
\* accept, in page order, up to the break of line 205 when the list held n
\* candidates before
Aceptadas(anclas, n, max_resultados) ==
  LET pasa(a) == /\ a.es_resultado
                 /\ es_universidad(Cadena(a.url_real), a.texto)
                 /\ extraer_info_universidad(a.url_real, a.texto) # SinInfo
      todas == SelectSeq(anclas, pasa)
      cupo == IF max_resultados - n > 1 THEN max_resultados - n ELSE 1
      k == IF Len(todas) < cupo THEN Len(todas) ELSE cupo
  IN [i \in 1..k |-> todas[i].url_real]

\* terminos_categoria[:5]
Primeros5(terminos) == SubSeq(terminos, 1, IF Len(terminos) < 5 THEN Len(terminos) ELSE 5)

\* lines 498-501: add the candidates whose url is not yet in the list
Fusionar(encontradas, nuevas) ==
  LET paso[i \in 0..Len(nuevas)] ==
        IF i = 0 THEN encontradas
        ELSE IF \E k \in 1..Len(paso[i - 1]) : paso[i - 1][k].url = nuevas[i].url
             THEN paso[i - 1]
             ELSE Append(paso[i - 1], nuevas[i])
  IN paso[Len(nuevas)]

(***************************************************************************)
(* The inputs of a complete run.                                           *)
(***************************************************************************)
\* most candidates the searches of one run accept
MaxCandidatos == 2

\* line 481
total_pasos == Len(categorias) + 1

Aviso(actual, total) == [actual |-> actual, total |-> total]

\* progreso_callback(actual, total, ...) when a callback was given
Avisar(actual) ==
  progreso' = IF llamada.progreso_callback
              THEN Append(progreso, Aviso(actual, total_pasos))
              ELSE progreso

\* lines 477-478 left out: the lists of the call before are kept
ReiniciarConserva(lista) == lista

\* lines 477-478: each list of the object starts the call empty
Reiniciar(lista) == <<>>

(***************************************************************************)
(* The steps of ejecutar_busqueda_completa.                                *)
(***************************************************************************)
\* lines 477-487: reset the lists and start the scan of the control
RunInicio ==
  /\ pc_run = "inicio"
  /\ universidades_encontradas' = Reiniciar(universidades_encontradas)
  /\ resultados_analisis' = Reiniciar(resultados_analisis)
  /\ Avisar(0)
  /\ EntrarScan(universidad_control)
  /\ pc_run' = "control"
  /\ descubiertas' = <<>>
  /\ UNCHANGED <<cat_i, term_j, encontradas_busqueda, analisis_k, varsLlamada>>
  /\ UNCHANGED varsRed

\* line 488: the scorecard of the control is the first result
RunControl ==
  /\ pc_run = "control"
  /\ pc_scan = "fin"
  /\ resultados_analisis' = Append(resultados_analisis, resultado)
  /\ cat_i' = 1
  /\ pc_run' = "categoria"
  /\ SalirScan
  /\ UNCHANGED <<term_j, encontradas_busqueda, universidades_encontradas, analisis_k,
                 progreso, descubiertas, varsLlamada>>
  /\ UNCHANGED varsRed

\* lines 491-496: the next category; buscar_universidades_google is entered
RunCategoria ==
  /\ pc_run = "categoria"
  /\ cat_i <= Len(categorias)
  /\ Avisar(cat_i)
  /\ encontradas_busqueda' = <<>>
  /\ term_j' = 1
  /\ pc_run' = "buscar"
  /\ UNCHANGED <<cat_i, universidades_encontradas, resultados_analisis, analisis_k,
                 varsLlamada, varsScan, descubiertas>>
  /\ UNCHANGED varsRed

\* lines 178-212: one pass of the loop over terminos_categoria[:5], the
\* search request for the term at term_j and the treatment of its page
PasoBusqueda(terminos, categoria, max_resultados) ==
  LET termino == terminos[term_j]
  IN \E r \in RespuestasBusqueda :
       /\ consultas' = Append(consultas, Consulta(termino))
       /\ IF r.exc \/ (EstadoOk(r.status) /\ ~r.cuerpo.valido)
          THEN \* requests.get or BeautifulSoup raised: except, continue
               /\ pausa_pendiente' = TRUE
               /\ term_j' = TrasFalloBusqueda(term_j, Len(terminos))
               /\ UNCHANGED <<encontradas_busqueda, descubiertas>>
          ELSE \* line 208: the pause, whatever the status
               /\ pausa_pendiente' = FALSE
               /\ term_j' = term_j + 1
               /\ IF EstadoOk(r.status)
                  THEN /\ encontradas_busqueda' =
                            ProcesarAnclas(encontradas_busqueda, r.cuerpo.anclas,
                                           categoria, termino, max_resultados)
                       /\ descubiertas' =
                            descubiertas \o Aceptadas(r.cuerpo.anclas,
                                                      Len(encontradas_busqueda),
                                                      max_resultados)
                       /\ Len(descubiertas') <= MaxCandidatos
                  ELSE UNCHANGED <<encontradas_busqueda, descubiertas>>

\* the call of line 496, max_resultados=10
BuscarTermino ==
  /\ pc_run = "buscar"
  /\ term_j <= Len(Primeros5(terminos_busqueda_universidades[categorias[cat_i]]))
  /\ PasoBusqueda(Primeros5(terminos_busqueda_universidades[categorias[cat_i]]),
                  categorias[cat_i], 10)
  /\ UNCHANGED <<pc_run, cat_i, universidades_encontradas, resultados_analisis, analisis_k,
                 progreso, sitios_fallidos, varsLlamada, varsScan>>

\* lines 214 and 498-501: the search returns and its candidates are merged
RunFusionar ==
  /\ pc_run = "buscar"
  /\ term_j > Len(Primeros5(terminos_busqueda_universidades[categorias[cat_i]]))
  /\ universidades_encontradas' = Fusionar(universidades_encontradas, encontradas_busqueda)
  /\ cat_i' = cat_i + 1
  /\ pc_run' = "categoria"
  /\ UNCHANGED <<term_j, encontradas_busqueda, resultados_analisis, analisis_k,
                 progreso, descubiertas, varsLlamada, varsScan>>
  /\ UNCHANGED varsRed

\* lines 503-505: all categories searched
RunTrasCategorias ==
  /\ pc_run = "categoria"
  /\ cat_i > Len(categorias)
  /\ Avisar(Len(categorias))
  /\ analisis_k' = 1
  /\ pc_run' = "analizar"
  /\ UNCHANGED <<cat_i, term_j, encontradas_busqueda, universidades_encontradas,
                 resultados_analisis, varsLlamada, varsScan, descubiertas>>
  /\ UNCHANGED varsRed

\* lines 507-508: the scan of the next candidate starts
RunAnalizar ==
  /\ pc_run = "analizar"
  /\ analisis_k <= Len(universidades_encontradas)
  /\ EntrarScan(universidades_encontradas[analisis_k])
  /\ pc_run' = "analizando"
  /\ UNCHANGED <<cat_i, term_j, encontradas_busqueda, universidades_encontradas,
                 resultados_analisis, analisis_k, progreso, descubiertas, varsLlamada>>
  /\ UNCHANGED varsRed

\* lines 509-510: its scorecard is appended
RunAnalizado ==
  /\ pc_run = "analizando"
  /\ pc_scan = "fin"
  /\ resultados_analisis' = Append(resultados_analisis, resultado)
  /\ analisis_k' = analisis_k + 1
  /\ pc_run' = "analizar"
  /\ SalirScan
  /\ UNCHANGED <<cat_i, term_j, encontradas_busqueda, universidades_encontradas,
                 progreso, descubiertas, varsLlamada>>
  \* line 510
  /\ pausa_pendiente' = FALSE
  /\ UNCHANGED <<consultas, sitios_fallidos>>

\* line 512
RunFin ==
  /\ pc_run = "analizar"
  /\ analisis_k > Len(universidades_encontradas)
  /\ retorno' = Devuelto(resultados_analisis)
  /\ pc_run' = "fin"
  /\ UNCHANGED <<llamada, cat_i, term_j, encontradas_busqueda, universidades_encontradas,
                 resultados_analisis, analisis_k, progreso, descubiertas, varsScan>>
  /\ UNCHANGED varsRed

\* main (lines 703-711) always passes actualizar_progreso as the callback
InitRun ==
  /\ llamada = [fn |-> "ejecutar_busqueda_completa", progreso_callback |-> TRUE]
  /\ retorno = Pendiente
  /\ ScanEn(universidad_control, "ocioso")
  /\ RunEn("inicio")
  /\ RedEnReposo

NextRun ==
  \/ RunInicio \/ RunControl \/ RunCategoria \/ BuscarTermino \/ RunFusionar
  \/ RunTrasCategorias \/ RunAnalizar \/ RunAnalizado \/ RunFin
  \/ ScanGet \/ ScanParse \/ ScanEnlaces \/ ScanAdicional \/ ScanPuntuar

SpecRun == InitRun /\ [][NextRun]_vars

(***************************************************************************)
(* Any sequence of calls of ejecutar_busqueda_completa on one object.      *)
(* When a call has returned, the next one starts: the two lists of the     *)
(* object are as the call before left them, the counters of that call are  *)
(* gone and the logs are those of the new call.  encontradas_busqueda      *)
(* shows the list of the last search until the next search replaces it.    *)
(***************************************************************************)
LlamarOtraVez ==
  /\ pc_run = "fin"
  /\ retorno' = Pendiente
  /\ pc_run' = "inicio"
  /\ cat_i' = 0
  /\ term_j' = 0
  /\ analisis_k' = 0
  /\ progreso' = <<>>
  /\ descubiertas' = <<>>
  /\ universidad' = universidad_control
  /\ resultado' = ResultadoInicial(universidad_control)
  /\ consultas' = <<>>
  /\ pausa_pendiente' = FALSE
  /\ sitios_fallidos' = {}
  /\ UNCHANGED <<llamada, encontradas_busqueda, universidades_encontradas,
                 resultados_analisis, pc_scan, respuesta, soup, texto_completo,
                 urls_relevantes, indice, contenido_adicional, todo_contenido, eventos>>

NextCorridas == NextRun \/ LlamarOtraVez

SpecCorridas == InitRun /\ [][NextCorridas]_vars

(***************************************************************************)
(* buscar_universidades_google on its own, lines 174-214, for the first    *)
(* terms of the list of a category, as many as the caller passes, and a    *)
(* max_resultados of the caller's choice.                                  *)
(***************************************************************************)
MaxResultados == 2

\* how many terms the caller passes: none, one, five, more than five
CantidadesDeTerminos == {0, 1, 5, 6}

InitBusqueda ==
  /\ llamada \in { [fn |-> "buscar_universidades_google",
                     terminos_categoria |->
                       SubSeq(terminos_busqueda_universidades[c], 1, n),
                     categoria |-> c,
                     max_resultados |-> m] :
                     c \in Categorias, n \in CantidadesDeTerminos, m \in 1..MaxResultados }
  /\ retorno = Pendiente
  /\ ScanEn(universidad_control, "ocioso")
  /\ RunEn("solo")
  /\ RedEnReposo

\* line 176 and the entry of the loop of line 178
EntrarBusqueda ==
  /\ llamada.fn = "buscar_universidades_google"
  /\ retorno = Pendiente
  /\ term_j = 0
  /\ encontradas_busqueda' = <<>>
  /\ term_j' = 1
  /\ UNCHANGED <<pc_run, cat_i, universidades_encontradas, resultados_analisis, analisis_k,
                 progreso, descubiertas, varsLlamada, varsScan, varsRed>>

\* lines 178-212
BuscarTerminoSolo ==
  /\ llamada.fn = "buscar_universidades_google"
  /\ retorno = Pendiente
  /\ term_j >= 1
  /\ term_j <= Len(Primeros5(llamada.terminos_categoria))
  /\ PasoBusqueda(Primeros5(llamada.terminos_categoria), llamada.categoria,
                  llamada.max_resultados)
  /\ UNCHANGED <<pc_run, cat_i, universidades_encontradas, resultados_analisis, analisis_k,
                 progreso, sitios_fallidos, varsLlamada, varsScan>>

\* line 214
RetornarBusqueda ==
  /\ llamada.fn = "buscar_universidades_google"
  /\ retorno = Pendiente
  /\ term_j > Len(Primeros5(llamada.terminos_categoria))
  /\ retorno' = Devuelto(encontradas_busqueda)
  /\ UNCHANGED <<llamada, varsScan, varsRun, varsRed>>

NextBusqueda == EntrarBusqueda \/ BuscarTerminoSolo \/ RetornarBusqueda

SpecBusqueda == InitBusqueda /\ [][NextBusqueda]_vars

(***************************************************************************)
(* Properties.                                                             *)
(***************************************************************************)
\* the scan has returned
ScanDevuelto == pc_scan = "fin"

\* the requests of the current scan, in order
Peticiones == SelectSeq(eventos, LAMBDA e : e.op = "get")

\* the requests of followed links
PeticionesAdicionales == SubSeq(Peticiones, 2, Len(Peticiones))

\* C1: a scorecard returned by analizar_universidad with accesible = false
\* has score 0 in the three categories and an empty contenido_muestra,
\* whatever the primary request, the followed links or an exception did.
C1_InaccesibleSinContenido ==
  (ScanDevuelto /\ ~resultado.accesible) =>
    /\ \A c \in Categorias : resultado[c].score = 0
    /\ resultado.contenido_muestra = <<>>

\* the primary request was made, it failed, and the scan has returned
C1_Testigo ==
  /\ ScanDevuelto
  /\ ~resultado.accesible
  /\ Len(Peticiones) = 1
  /\ ~Peticiones[1].ok

\* C2: a scorecard returned by analizar_universidad has a non-empty
\* urls_analizadas exactly when accesible is true, also when an exception is
\* raised after the primary response arrived with status 200.
C2_UrlsSiiAccesible ==
  ScanDevuelto => (resultado.urls_analizadas # <<>> <=> resultado.accesible)

\* C3: every validation term of the category that occurs in the text is in
\* the hit list of buscar_terminos_en_texto exactly once: no two hits have
\* the same term.
C3_UnHitPorTermino ==
  (llamada.fn = "buscar_terminos_en_texto" /\ ~retorno.pendiente) =>
    LET hits == retorno.valor
        catalogo == terminos_validacion[llamada.categoria]
    IN /\ \A k \in 1..Len(catalogo) :
            TerminoEnTexto(catalogo[k], LowerText(llamada.texto)) =>
              Cardinality({ i \in 1..Len(hits) : hits[i].termino = catalogo[k] }) = 1
       /\ \A i, j \in 1..Len(hits) : i # j => hits[i].termino # hits[j].termino

\* the text the scan has gathered: the primary page and the followed pages
TextoAcumulado == texto_completo \o <<" ">> \o contenido_adicional

\* the distinct validation terms of a category that occur in a text
TerminosDistintos(texto, categoria) ==
  { t \in Range(terminos_validacion[categoria]) : TerminoEnTexto(t, LowerText(texto)) }

\* C4: in the scorecard of an accessible site the score of each category is
\* the number of distinct validation terms of the category that occur in the
\* accumulated text, and encontrado is true exactly when the score is
\* positive.
C4_ScoreCuentaTerminosDistintos ==
  (ScanDevuelto /\ resultado.accesible) =>
    \A c \in Categorias :
      /\ resultado[c].score = Cardinality(TerminosDistintos(TextoAcumulado, c))
      /\ resultado[c].encontrado <=> resultado[c].score > 0

\* C5: within one category no two candidates have the same dominio, neither
\* in the list buscar_universidades_google builds nor in
\* universidades_encontradas after the dedup of ejecutar_busqueda_completa.
C5_UnCandidatoPorDominio ==
  /\ \A i, j \in 1..Len(encontradas_busqueda) :
       i # j => encontradas_busqueda[i].dominio # encontradas_busqueda[j].dominio
  /\ \A i, j \in 1..Len(universidades_encontradas) :
       (i # j /\ universidades_encontradas[i].categoria_encontrada
                   = universidades_encontradas[j].categoria_encontrada)
         => universidades_encontradas[i].dominio # universidades_encontradas[j].dominio

\* the substrings of a domain that mark a ranking aggregator, a wiki, an
\* archive mirror or a blog platform
ListaBloqueo == {"ranking", "wikipedia", "archive", "blogspot"}

\* C6: es_universidad returns false for every URL whose domain contains a
\* blocklisted substring, even with an institutional pattern in the URL or an
\* institutional keyword in the title.
C6_BloqueoTienePrioridad ==
  (llamada.fn = "es_universidad" /\ ~retorno.pendiente) =>
    ((/\ llamada.url.tipo = "str"
      /\ \E b \in ListaBloqueo : PalabraEn(b, LowerText(Netloc(llamada.url.valor))))
       => ~retorno.valor)

\* C7: when the primary request raises or returns a status other than 200
\* the scan ends at once: nothing but that request has happened, and the
\* scorecard is the initial one (accesible false, scores 0, no URL).
C7_FalloPrimarioTermina ==
  (Len(Peticiones) >= 1 /\ ~Peticiones[1].ok) =>
    /\ ScanDevuelto
    /\ Len(eventos) = 1
    /\ ~resultado.accesible
    /\ \A c \in Categorias : resultado[c] = CategoriaVacia
    /\ resultado.urls_analizadas = <<>>

\* the primary request has failed with a response (not an exception)
C7_Testigo ==
  /\ ScanDevuelto
  /\ Len(eventos) = 1
  /\ eventos[1].op = "get"
  /\ ~eventos[1].ok
  /\ resultado.urls_analizadas = <<>>

\* the texts of the followed pages that were read, each after a space
RECURSIVE TextoDe(_)
TextoDe(peticiones) ==
  IF peticiones = <<>> THEN <<>>
  ELSE (IF Head(peticiones).ok THEN <<" ">> \o Head(peticiones).texto ELSE <<>>)
       \o TextoDe(Tail(peticiones))

\* the URLs of the requests that succeeded
UrlsLeidas(peticiones) ==
  LET buenas == SelectSeq(peticiones, LAMBDA e : e.ok)
  IN [i \in 1..Len(buenas) |-> buenas[i].url]

\* C8: once the followed links are known, a failed request of one of them
\* does not end the scan: every one of the first three links is requested,
\* the failed ones are left out of urls_analizadas and add no text, the
\* categories are scored on the text read, and accesible is true.
C8_FalloAdicionalNoAborta ==
  (ScanDevuelto /\ \E k \in 1..Len(eventos) : eventos[k].op = "enlaces" /\ eventos[k].ok) =>
    /\ Len(PeticionesAdicionales) = Len(Primeras3(urls_relevantes))
    /\ \A i \in 1..Len(PeticionesAdicionales) :
         PeticionesAdicionales[i].url = urls_relevantes[i]
    /\ resultado.urls_analizadas = <<universidad.url>> \o UrlsLeidas(PeticionesAdicionales)
    /\ todo_contenido = texto_completo \o <<" ">> \o TextoDe(PeticionesAdicionales)
    /\ eventos[Len(eventos)].op = "puntuar"
    /\ \A c \in Categorias : resultado[c] = ResultadoCategoria(todo_contenido, c)
    /\ resultado.accesible

\* a followed link failed, a later one was read, and the scan has returned
C8_Testigo ==
  /\ ScanDevuelto
  /\ \E i, j \in 1..Len(PeticionesAdicionales) :
       /\ i < j
       /\ ~PeticionesAdicionales[i].ok
       /\ PeticionesAdicionales[j].ok

RECURSIVE SinRepetidos(_)
SinRepetidos(s) ==
  IF s = <<>> THEN <<>>
  ELSE LET previa == SinRepetidos(SubSeq(s, 1, Len(s) - 1))
       IN IF s[Len(s)] \in Range(previa) THEN previa ELSE Append(previa, s[Len(s)])

IndiceCategoria(c) == CHOOSE k \in 1..Len(categorias) : categorias[k] = c

IndiceTermino(c, t) ==
  CHOOSE k \in 1..5 : Primeros5(terminos_busqueda_universidades[c])[k] = t

\* C10: the sequence ejecutar_busqueda_completa returns starts with the
\* scorecard of the control institution; the scorecards of the candidates
\* follow, by category in the order of categorias, inside a category by
\* query term and then by position on the search page.
C10_OrdenDeResultados ==
  pc_run = "fin" =>
    LET r == retorno.valor
        cat(i) == IndiceCategoria(r[i].categoria_encontrada)
        ter(i) == IndiceTermino(r[i].categoria_encontrada, r[i].termino_busqueda)
    IN /\ Len(r) >= 1
       /\ r[1].url = universidad_control.url
       /\ r[1].categoria_encontrada = "Búsqueda"
       /\ [i \in 1..(Len(r) - 1) |-> r[i + 1].url] = SinRepetidos(descubiertas)
       /\ \A i, j \in 2..Len(r) :
            i < j => \/ cat(i) < cat(j)
                     \/ cat(i) = cat(j) /\ ter(i) <= ter(j)

\* a run has returned the control and two candidates of different categories
C10_Testigo ==
  /\ pc_run = "fin"
  /\ Len(retorno.valor) = 3
  /\ retorno.valor[2].categoria_encontrada # retorno.valor[3].categoria_encontrada

\* the search requests of a complete run: the first five terms of each
\* category, in the order of categorias
ConsultasDeUnaCorrida ==
  [ k \in 1..(5 * Len(categorias)) |->
      Consulta(Primeros5(terminos_busqueda_universidades[categorias[((k - 1) \div 5) + 1]])
                 [((k - 1) % 5) + 1]) ]

\* what ejecutar_busqueda_completa has returned, whatever failed on the way:
\* the scorecard of the control first, one scorecard per candidate, every
\* site whose primary request failed marked inaccessible, no followed link
\* that failed among the URLs analysed, and every search request made
C11_RetornoTrasFallos ==
  pc_run = "fin" =>
    LET r == retorno.valor
    IN /\ ~retorno.pendiente
       /\ Len(r) = 1 + Len(universidades_encontradas)
       /\ r[1].url = universidad_control.url
       /\ \A i \in 1..Len(r) :
            /\ r[i].url \in sitios_fallidos => ~r[i].accesible
            /\ r[i].url \notin sitios_fallidos => r[i].urls_analizadas = <<r[i].url>>
       /\ consultas = ConsultasDeUnaCorrida

\* the steps analizar_universidad has left at most
RestanteScan ==
  CASE pc_scan = "get" -> 7
    [] pc_scan = "parse" -> 6
    [] pc_scan = "enlaces" -> 5
    [] pc_scan = "bucle" -> Len(Primeras3(urls_relevantes)) + 2 - indice
    [] OTHER -> 0

\* how far the run is from its return: the phase it is in, and the steps
\* the phase has left at most
Restante ==
  CASE pc_run = "inicio" -> <<4, 0>>
    [] pc_run = "control" -> <<3, RestanteScan>>
    [] pc_run = "categoria" -> <<2, (Len(categorias) - cat_i) * 7 + 8>>
    [] pc_run = "buscar" -> <<2, (Len(categorias) - cat_i) * 7 + 8 - term_j>>
    [] pc_run = "analizar" ->
         <<1, (Len(universidades_encontradas) + 1 - analisis_k) * 9 + 1>>
    [] pc_run = "analizando" ->
         <<1, (Len(universidades_encontradas) - analisis_k) * 9 + RestanteScan + 2>>
    [] OTHER -> <<0, 0>>

\* the run has returned, or it is at a statement from which the code goes
\* on: no exception has left analizar_universidad or the run
C11_HayPaso ==
  \/ pc_run = "fin" /\ ~retorno.pendiente
  \/ pc_run \in {"inicio", "categoria", "buscar", "analizar"} /\ pc_scan = "ocioso"
  \/ /\ pc_run \in {"control", "analizando"}
     /\ pc_scan \in {"get", "parse", "enlaces", "bucle", "fin"}
     /\ pc_scan = "bucle" => indice \in 1..(Len(Primeras3(urls_relevantes)) + 1)

\* a step brings the run closer to its return
C11_Avanza ==
  /\ Restante'[1] >= 0 /\ Restante'[2] >= 0
  /\ \/ Restante'[1] < Restante[1]
     \/ Restante'[1] = Restante[1] /\ Restante'[2] < Restante[2]

\* C11: whatever requests fail (the search requests, the primary request of
\* a site, the requests of followed links, by an exception or by a status
\* other than 200), ejecutar_busqueda_completa terminates and returns a
\* sequence that starts with the scorecard of the control institution; every
\* site whose primary request failed is marked accesible = false and every
\* failed search or link is skipped.  It terminates because the run is
\* always at a statement of the code with a next step, until it has
\* returned, and every step lowers Restante, a pair of naturals in
\* lexicographic order.
C11_FallosNoSePropagan ==
  /\ [](C11_RetornoTrasFallos /\ C11_HayPaso)
  /\ [][C11_Avanza]_vars

\* a run has returned after a followed link of the control failed and the
\* primary request of a candidate failed
C11_Testigo ==
  /\ pc_run = "fin"
  /\ retorno.valor[1].accesible
  /\ retorno.valor[1].urls_analizadas = <<universidad_control.url>>
  /\ \E i \in 2..Len(retorno.valor) : retorno.valor[i].url \in sitios_fallidos

\* C12: a scan whose primary URL answers with status 200 and a content type
\* that is not text (a PDF, a binary file) returns accesible = false; a
\* followed link that answers with such a content type adds no text and
\* leaves accesible true.
C12_TipoNoTexto ==
  ScanDevuelto =>
    /\ (Len(Peticiones) >= 1 /\ Peticiones[1].ok /\ Peticiones[1].tipo \in TiposBinarios)
         => ~resultado.accesible
    /\ \A i \in 1..Len(PeticionesAdicionales) :
         (PeticionesAdicionales[i].ok /\ PeticionesAdicionales[i].tipo \in TiposBinarios)
           => (resultado.accesible /\ PeticionesAdicionales[i].texto = <<>>)

\* a string that urlparse reads as an http or https URL with a host
UrlHttpBienFormada(url) ==
  /\ url # <<>>
  /\ url[1] \in {"https://", "http://"}
  /\ Netloc(url) # <<>>

\* C13: es_universidad returns false for an empty URL, for a URL that is
\* not a string and for a string that is not a well-formed http(s) URL,
\* whatever the string or the title contains.
C13_FallaCerrado ==
  (llamada.fn = "es_universidad" /\ ~retorno.pendiente) =>
    ((llamada.url.tipo # "str" \/ ~UrlHttpBienFormada(llamada.url.valor))
       => ~retorno.valor)

\* a step in which requests.get is called: a search request is sent or the
\* scan requests a page
LlamadaDeRed ==
  \/ Len(consultas') > Len(consultas)
  \/ Len(Peticiones') > Len(Peticiones)

\* C14: during a run of ejecutar_busqueda_completa no request (a search, the
\* primary request of a site, the request of a followed link) is made while
\* the request before it has not been followed by a time.sleep, also after a
\* request that raised and between the primary request of a site and that
\* of its first followed link.
C14_PausaEntreLlamadas == [][LlamadaDeRed => ~pausa_pendiente]_vars

\* C15: the searches are made category by category in the order of
\* categorias, and the candidates a category has left after the dedup are
\* all scanned before the first search request of the next category is
\* sent.
C15_CategoriaPorCategoria ==
  /\ consultas = SubSeq(ConsultasDeUnaCorrida, 1, Len(consultas))
  /\ \A i \in 1..Len(universidades_encontradas) :
       LET u == universidades_encontradas[i]
       IN Len(consultas) > 5 * IndiceCategoria(u.categoria_encontrada)
            => \E k \in 1..Len(resultados_analisis) : resultados_analisis[k].url = u.url

\* the URL of a search request whose query is restricted to a site
EsConsultaDeSitio(consulta, dominio) ==
  \E i \in 1..Len(consulta) :
    /\ consulta[i] = "site:"
    /\ SubSeq(consulta, i + 1, i + Len(dominio)) = dominio

\* C16: when the scan of the control institution gives score 0 in the three
\* categories, a reinforcement search is made before the searches of the
\* categories: the first search request of the run is a query restricted to
\* the site of the control institution.
C16_BusquedaDeRefuerzo ==
  ( /\ Len(resultados_analisis) >= 1
    /\ \A c \in Categorias : resultados_analisis[1][c].score = 0
    /\ Len(consultas) >= 1 )
    => EsConsultaDeSitio(consultas[1], Netloc(universidad_control.url))

\* no element occurs twice in the sequence
SinDuplicados(lista) == \A i, j \in 1..Len(lista) : i # j => lista[i] # lista[j]

\* C17: a scan follows a bounded number of links: the list of
\* encontrar_paginas_relevantes has at most 15 URLs and none twice, at most
\* the first 3 are requested, so a scan makes at most 4 requests and
\* urls_analizadas has at most 4 entries, the first being the primary URL of
\* the site and none occurring twice.
C17_EnlacesAcotados ==
  /\ Len(urls_relevantes) <= 15
  /\ SinDuplicados(urls_relevantes)
  /\ Len(PeticionesAdicionales) <= 3
  /\ Len(Peticiones) <= 4
  /\ Len(resultado.urls_analizadas) <= 4
  /\ resultado.urls_analizadas # <<>> => resultado.urls_analizadas[1] = universidad.url
  /\ SinDuplicados(resultado.urls_analizadas)

\* the six languages of the vote, in the order of idiomas_palabras
Idiomas == { idiomas_palabras[k][1] : k \in 1..Len(idiomas_palabras) }

\* the keywords of the k-th language that occur in the text
CuentaIdioma(k, texto) ==
  Cardinality({ p \in Range(idiomas_palabras[k][2]) : PalabraEn(p, LowerText(texto)) })

\* the language is the first one, in the order of idiomas_palabras, whose
\* keyword count in the text is the highest
EsPrimeroAlMaximo(idioma, texto) ==
  \E k \in 1..Len(idiomas_palabras) :
    /\ idiomas_palabras[k][1] = idioma
    /\ \A j \in 1..Len(idiomas_palabras) :
         /\ j < k => CuentaIdioma(j, texto) < CuentaIdioma(k, texto)
         /\ j > k => CuentaIdioma(j, texto) <= CuentaIdioma(k, texto)

\* the scan has returned the scorecard of a page it has parsed
PaginaAnalizada == ScanDevuelto /\ resultado.accesible /\ soup.valido

\* C18 as stated: for every accessible page idioma_detectado is the first
\* of the six languages whose keyword count in the text of the page is the
\* highest, and never a value outside the six languages.
C18_IdiomaPorVoto ==
  PaginaAnalizada =>
    /\ resultado.idioma_detectado \in Idiomas
    /\ EsPrimeroAlMaximo(resultado.idioma_detectado, soup.texto)

\* C18 amended: for every page the scan has parsed, idioma_detectado is the
\* value of the lang attribute of the html tag when the tag has one;
\* otherwise it is the first of the six languages whose keyword count in
\* the text of the page is the highest.
C18_IdiomaPorLangOVoto ==
  PaginaAnalizada =>
    IF soup.lang # None
    THEN resultado.idioma_detectado = soup.lang
    ELSE /\ resultado.idioma_detectado \in Idiomas
         /\ EsPrimeroAlMaximo(resultado.idioma_detectado, soup.texto)

\* a page without lang attribute on which two languages tie at a positive
\* count has been scanned
C18_Testigo ==
  /\ PaginaAnalizada
  /\ soup.lang = None
  /\ \E j, k \in 1..Len(idiomas_palabras) :
       /\ j < k
       /\ CuentaIdioma(j, soup.texto) = CuentaIdioma(k, soup.texto)
       /\ CuentaIdioma(j, soup.texto) > 0
       /\ resultado.idioma_detectado = idiomas_palabras[j][1]

(***************************************************************************)
(* C19                                                                     *)
(***************************************************************************)
\* the context has no whitespace other than single spaces between words
BlancosColapsados(c) ==
  \A k \in 1..Len(c) :
    /\ c[k] \notin Blancos \ {" "}
    /\ c[k] = " " => (1 < k /\ k < Len(c) /\ c[k + 1] # " ")

\* c is a piece of the text s that lies within antes characters before and
\* despues characters after an occurrence of t, with whitespace collapsed
DeLaVentana(c, t, s, antes, despues) ==
  \E p \in Ocurrencias(t, s) :
    LET fin == p + Len(t) - 1
        desde == IF p > antes THEN p - antes ELSE 1
        hasta == IF Len(s) - fin > despues THEN fin + despues ELSE Len(s)
    IN Contains(c, Limpiar(SubSeq(s, desde, hasta)))

C20_ProgresoHastaElTotal ==
  llamada.progreso_callback =>
    /\ \A i, j \in 1..Len(progreso) :
         i <= j => progreso[i].actual <= progreso[j].actual
    /\ \A i \in 1..Len(progreso) :
         progreso[i].total = total_pasos /\ progreso[i].actual <= total_pasos
    /\ pc_run = "fin" =>
         /\ Len(progreso) >= total_pasos
         /\ progreso[Len(progreso)].actual = total_pasos

(***************************************************************************)
(* C21                                                                     *)
(***************************************************************************)
\* C21: buscar_universidades_google never holds more than max_resultados
\* candidates, and once it holds max_resultados of them a step neither
\* appends a candidate nor issues a search request.
C21_TopeDeResultados ==
  [][ llamada.fn = "buscar_universidades_google" =>
        /\ Len(encontradas_busqueda') <= llamada.max_resultados
        /\ Len(encontradas_busqueda) >= llamada.max_resultados =>
              /\ encontradas_busqueda' = encontradas_busqueda
              /\ consultas' = consultas ]_vars

(***************************************************************************)
(* C22                                                                     *)
(***************************************************************************)
\* the sequence a is the beginning of the sequence b
EsPrefijo(a, b) == Len(a) <= Len(b) /\ SubSeq(b, 1, Len(a)) = a

\* how many candidates the call has scanned so far
Analizadas ==
  CASE pc_run \in {"analizar", "analizando"} -> analisis_k - 1
    [] pc_run = "fin" -> Len(universidades_encontradas)
    [] OTHER -> 0

\* no two candidates of the object have the same url, and once a call has
\* started the two lists hold what this call has put in them and nothing
\* else: no scorecard and no candidate while the control is scanned, then
\* the scorecard of the control and, in the order of the candidates, that of
\* every candidate scanned so far; when the call has returned, there is one
\* scorecard per candidate and the candidates are the URLs discovered in
\* this call, in the order of their first discovery
C22_ListasDeLaUltimaCorrida ==
  /\ \A i, j \in 1..Len(universidades_encontradas) :
       i # j => universidades_encontradas[i].url # universidades_encontradas[j].url
  /\ pc_run = "control" =>
       resultados_analisis = <<>> /\ universidades_encontradas = <<>>
  /\ pc_run \notin {"inicio", "control"} =>
       /\ Len(resultados_analisis) = 1 + Analizadas
       /\ resultados_analisis[1].url = universidad_control.url
       /\ \A k \in 1..Analizadas :
            /\ resultados_analisis[k + 1].url = universidades_encontradas[k].url
            /\ resultados_analisis[k + 1].categoria_encontrada =
                 universidades_encontradas[k].categoria_encontrada
            /\ resultados_analisis[k + 1].termino_busqueda =
                 universidades_encontradas[k].termino_busqueda
  /\ pc_run = "fin" =>
       /\ retorno.valor = resultados_analisis
       /\ [k \in 1..Len(universidades_encontradas) |-> universidades_encontradas[k].url]
            = SinRepetidos(descubiertas)

\* a candidate enters the list of a search with the category and the term
\* being searched; the merge keeps the candidates the object already has as
\* they are, adds for each new url the first candidate of the search with
\* that url and leaves no url of the search out; the list of the object
\* changes in no other way than by the reset at the start of a call
C22_PrimerDescubrimiento ==
  /\ (pc_run = "buscar" /\ encontradas_busqueda' # encontradas_busqueda) =>
       /\ EsPrefijo(encontradas_busqueda, encontradas_busqueda')
       /\ \A k \in (Len(encontradas_busqueda) + 1)..Len(encontradas_busqueda') :
            /\ encontradas_busqueda'[k].categoria_encontrada = categorias[cat_i]
            /\ encontradas_busqueda'[k].termino_busqueda =
                 Primeros5(terminos_busqueda_universidades[categorias[cat_i]])[term_j]
  /\ universidades_encontradas' # universidades_encontradas =>
       \/ pc_run = "inicio" /\ universidades_encontradas' = <<>>
       \/ /\ pc_run = "buscar"
          /\ EsPrefijo(universidades_encontradas, universidades_encontradas')
          /\ \A k \in (Len(universidades_encontradas) + 1)..Len(universidades_encontradas') :
               \E i \in 1..Len(encontradas_busqueda) :
                 /\ universidades_encontradas'[k] = encontradas_busqueda[i]
                 /\ \A h \in 1..(i - 1) :
                      encontradas_busqueda[h].url # encontradas_busqueda[i].url
  /\ (pc_run = "buscar" /\ pc_run' = "categoria") =>
       \A i \in 1..Len(encontradas_busqueda) :
         \E k \in 1..Len(universidades_encontradas') :
           universidades_encontradas'[k].url = encontradas_busqueda[i].url

\* C22: after any sequence of calls of ejecutar_busqueda_completa on one
\* object, resultados_analisis holds the scorecards of the latest call only,
\* one for the control institution and one per entry of
\* universidades_encontradas, in the same order; no two entries of
\* universidades_encontradas have the same url, and a URL discovered under
\* several categories is kept once, with the category and the search term
\* of its first discovery.
C22_SoloLaUltimaCorrida ==
  /\ []C22_ListasDeLaUltimaCorrida
  /\ [][C22_PrimerDescubrimiento]_vars

\* a call starts on an object that holds the lists of a call that has
\* returned, in which the last category searched found again a URL that the
\* object keeps with the category of an earlier search
C22_Testigo ==
  /\ pc_run = "inicio"
  /\ resultados_analisis # <<>>
  /\ \E i \in 1..Len(encontradas_busqueda) :
       \E k \in 1..Len(universidades_encontradas) :
         /\ universidades_encontradas[k].url = encontradas_busqueda[i].url
         /\ universidades_encontradas[k].categoria_encontrada
              # encontradas_busqueda[i].categoria_encontrada

====
